---- MODULE Spec2Model ----
(***************************************************************************)
(* Model of the retrieval core of the log troubleshooting assistant:       *)
(* FlexibleVectorStore (src/src/services/vector_store_flexible.py) and     *)
(* the faiss-only VectorStore (src/src/services/vector_store.py).          *)
(*                                                                         *)
(* One store object lives in a process; Construct models a new process    *)
(* (or a new object) for the same index name, so it replaces the object   *)
(* and reads the on-disk artifact.  The libraries the code calls (faiss,   *)
(* annoy, scikit-learn, numpy, pickle, the sentence encoder) are modelled  *)
(* by what their calls do:                                                 *)
(*   - the encoder is a fixed table from texts to vectors;                 *)
(*   - faiss IndexFlatL2 appends vectors and returns the k nearest by      *)
(*     squared L2 distance, ascending, lower id first on ties; its Python  *)
(*     search asserts k > 0; the index pickles and unpickles;              *)
(*   - AnnoyIndex.add_item(i, v) stores v under id i (replacing what was   *)
(*     there), get_n_items() is the highest id plus one, build() raises on *)
(*     an index that is already built, and the object does not pickle;     *)
(*   - NearestNeighbors.fit replaces the fitted matrix, kneighbors raises  *)
(*     for n_neighbors = 0, and the estimator pickles with its matrix;     *)
(*   - a numpy matrix pickles; argsort on these short arrays is stable.    *)
(* Floats are exact rationals; the vectors of the encoder table have       *)
(* integral norms so that every cosine is a rational.                      *)
(***************************************************************************)
EXTENDS Integers, Sequences, FiniteSets, TLC

(* ------------------------------ bounds --------------------------------- *)

\* most documents one store holds (len(metadata) after an add)
MaxDocs == 2

\* most lines of a log text
MaxLines == 6

\* most lines of a log text whose lines are each chosen freely
MaxMixed == 3

\* most entries the knowledge base holds
MaxKbEntries == 3

\* most 'Analyze' clicks of one browser session
MaxClicks == 2

\* most documents the knowledge base index holds
MaxKbDocs == 6
\* longest batch passed to add_documents
MaxBatch == 2
\* largest top_k passed to search (0..MaxTopK)
MaxTopK == 2

(* --------------------------- Python values ----------------------------- *)

\* Python's None, where it appears as a value next to strs (a dictionary
\* value, dict.get's default, an attribute). A str is written as the string of
\* its characters; None is written as a string that is the str of no value of
\* the program, the str 'None' included.
None == "<None>"

\* A dict is the set of its (key, value) items; keys are unique.
\* dict.get(key): the value, or None when the key is absent
DictGet(d, key) == IF \E p \in d : p[1] = key
                   THEN (CHOOSE p \in d : p[1] = key)[2]
                   ELSE None

\* key in d
HasKey(d, key) == \E p \in d : p[1] = key

\* d.get(key, default)
GetOr(d, key, default) == IF HasKey(d, key) THEN DictGet(d, key) ELSE default

\* the empty dict (falsy in Python)
EmptyDict == {}

\* metadata dicts passed with documents: {} and {"type": "kb"}
Metas == {EmptyDict, {<<"type", "kb">>}}

\* filter_metadata arguments: no filter (None and {} are both falsy),
\* {"type": "kb"}, and {"type": None}
Filters == {EmptyDict, {<<"type", "kb">>}, {<<"type", None>>}}

(* ------------------------------ rationals ------------------------------ *)

RECURSIVE Gcd(_, _)
Gcd(a, b) == IF b = 0 THEN a ELSE Gcd(b, a % b)

Abs(x) == IF x < 0 THEN -x ELSE x

\* the rational n/d (d > 0) in lowest terms
Rat(n, d) == LET g == Gcd(Abs(n), d) IN <<n \div g, d \div g>>

RatLess(x, y) == x[1] * y[2] < y[1] * x[2]

RatSub(x, y) == Rat(x[1] * y[2] - y[1] * x[2], x[2] * y[2])

\* 1 / (1 + x), for x >= 0
RatInv1p(x) == Rat(x[2], x[2] + x[1])

(* ------------------------------ embeddings ----------------------------- *)

\* the texts of the documents and of the queries; a text is the sequence of
\* its characters
Texts == {<<"a">>, <<"b">>}

\* EmbeddingService.encode: a deterministic text -> vector table
Embed(t) == IF t = <<"a">> THEN <<1, 0>> ELSE <<3, 4>>

\* embeddings.shape[1]
Dim(rows) == Len(rows[1])

Dot(u, v) == u[1] * v[1] + u[2] * v[2]

\* squared L2 distance (faiss IndexFlatL2)
SqL2(u, v) == Dot(<<u[1] - v[1], u[2] - v[2]>>, <<u[1] - v[1], u[2] - v[2]>>)

\* np.linalg.norm, exact on the table's vectors
Norm(u) == CHOOSE r \in 0..Dot(u, u) : r * r = Dot(u, u)

\* cosine similarity as _search_numpy computes it (0 when a norm is 0)
Cosine(q, v) == IF Norm(q) = 0 \/ Norm(v) = 0 THEN Rat(0, 1)
                ELSE Rat(Dot(q, v), Norm(q) * Norm(v))

\* the vectors the encoder produces, and Cosine tabulated over them
Vecs == {Embed(t) : t \in Texts}

CosineOf[q \in Vecs, v \in Vecs] == Cosine(q, v)

(* --------------------------- sequence helpers -------------------------- *)

Min(a, b) == IF a < b THEN a ELSE b

Max(a, b) == IF a < b THEN b ELSE a

\* s[:k]
Take(s, k) == SubSeq(s, 1, Min(k, Len(s)))

\* s[-k:] as Python slices it: -0 is 0, so s[-0:] is the whole of s
LastK(s, k) == IF k = 0 THEN s ELSE SubSeq(s, Max(1, Len(s) - k + 1), Len(s))

\* s[::-1]
Reverse(s) == [i \in 1..Len(s) |-> s[Len(s) + 1 - i]]

\* A stable ascending sort of records by their rational field key: each
\* element goes after the elements that are not greater.
RECURSIVE InsertAsc(_, _)
InsertAsc(x, s) == IF s = <<>> THEN <<x>>
                   ELSE IF RatLess(x.key, Head(s).key) THEN <<x>> \o s
                   ELSE <<Head(s)>> \o InsertAsc(x, Tail(s))

RECURSIVE SortAsc(_)
SortAsc(s) == IF Len(s) = 0 THEN <<>>
              ELSE InsertAsc(s[Len(s)], SortAsc(SubSeq(s, 1, Len(s) - 1)))

(* ------------------------------- scores -------------------------------- *)

\* A score is a float.  form "value": the float is the rational q.
\* form "1/(1+sqrt)": the float is 1 / (1 + sqrt(q)), q a rational >= 0
\* (annoy's angular distance is sqrt(2 - 2 cos), irrational in general).
ScoreValue(r) == [form |-> "value", q |-> r]

ScoreInvSqrt(r) == [form |-> "1/(1+sqrt)", q |-> r]

\* x < y as floats (both of one form: one search yields one form)
ScoreLess(x, y) == IF x.form = "value" THEN RatLess(x.q, y.q) ELSE RatLess(y.q, x.q)

\* sorted(results, key=lambda x: x[0], reverse=True): descending by score,
\* equal scores keep their order
RECURSIVE InsertDesc(_, _)
InsertDesc(x, s) == IF s = <<>> THEN <<x>>
                    ELSE IF ScoreLess(Head(s).score, x.score) THEN <<x>> \o s
                    ELSE <<Head(s)>> \o InsertDesc(x, Tail(s))

RECURSIVE SortDesc(_)
SortDesc(s) == IF Len(s) = 0 THEN <<>>
               ELSE InsertDesc(s[Len(s)], SortDesc(SubSeq(s, 1, Len(s) - 1)))

(* --------------------------- the store object --------------------------- *)

Backends == <<"faiss", "annoy", "sklearn", "numpy">>

\* self.index: None, or the backend's object with the vectors it holds
\* (ids are positions, 0-based in the code, 1-based here)
NoIndex == [kind |-> "None", vecs |-> <<>>, built |-> FALSE]

\* self.embeddings: an attribute that exists only once _add_sklearn has set it
NoAttr == [has |-> FALSE, rows |-> <<>>]

\* self.dimension: None is <<>>, the number d is <<d>>
NoDim == <<>>

\* the fields __init__ sets before it probes and loads
\* (module: the backend whose _init_* ran in this object and set self.faiss,
\* self.AnnoyIndex or self.NearestNeighbors; _init_numpy sets no attribute)
NewStore == [status |-> "ok", backend |-> None, module |-> None, index |-> NoIndex,
             metadata |-> <<>>, dimension |-> NoDim, embeddings |-> NoAttr]

\* no object: before the first construction, or when __init__ raised
NoStore == [NewStore EXCEPT !.status = "none"]

FailedStore == [NewStore EXCEPT !.status = "failed"]

(* ---------------------- process environment, probing -------------------- *)

\* what the process can import: faiss and sklearn are there or not; annoy is
\* absent, or importable without AnnoyIndex ("noindex"), or complete ("ok")
Envs == [faiss : BOOLEAN, annoy : {"absent", "noindex", "ok"}, sklearn : BOOLEAN]

\* the imports at the top of vector_store_flexible.py: `import annoy` is one
ModuleImports(env) == env.annoy # "absent"

\* _init_faiss / _init_annoy / _init_sklearn / _init_numpy return without raising
InitSucceeds(env, b) == CASE b = "faiss"   -> env.faiss
                          [] b = "annoy"   -> env.annoy = "ok"
                          [] b = "sklearn" -> env.sklearn
                          [] OTHER         -> TRUE

\* _init_backend: try each backend in order, keep the first whose init returns
InitBackend(env) ==
    LET ok == {i \in 1..Len(Backends) : InitSucceeds(env, Backends[i])}
    IN IF ok = {} THEN [exc |-> "ImportError", backend |-> None, probed |-> Backends]
       ELSE LET i == CHOOSE i \in ok : \A j \in ok : i <= j
            IN [exc |-> "none", backend |-> Backends[i], probed |-> SubSeq(Backends, 1, i)]

(* ------------------------------ persistence ----------------------------- *)

\* the artifact <index_name>.pkl: absent, an empty file (a dump that raised
\* after open(..., 'wb') truncated it), a pickle of the four fields, or the
\* pickle of 'embeddings' and 'metadata' that save_embeddings writes
NoData == [index |-> NoIndex, metadata |-> <<>>, dimension |-> NoDim, backend |-> None]

NoFile == [state |-> "absent", data |-> NoData]

EmptyFile == [state |-> "empty", data |-> NoData]

\* the index_name of the store
IndexName == "log_index"

\* EmbeddingService.save_embeddings(embeddings, metadata, name): a dict with
\* the keys 'embeddings' and 'metadata' goes to <name>.pkl in the directory of
\* the artifact, so to the artifact when name is the index_name
SaveEmbeddings(dsk, metadata, name) ==
    IF name = IndexName
    THEN [state |-> "embeddings", data |-> [NoData EXCEPT !.metadata = metadata]]
    ELSE dsk

\* pickle can serialise the index object (an AnnoyIndex has no pickle support)
Picklable(index) == index.kind # "annoy"

\* pickle.load can rebuild the index object in this process
Loadable(index, env) == CASE index.kind = "faiss"   -> env.faiss
                             [] index.kind = "sklearn" -> env.sklearn
                             [] index.kind = "annoy"   -> env.annoy = "ok"
                             [] OTHER                  -> TRUE

\* save_index with the dimension left out of the dumped dict
SaveIndexWithoutDimension(s) ==
    IF Picklable(s.index)
    THEN [exc |-> "none",
          disk |-> [state |-> "pickle",
                    data |-> [index |-> s.index, metadata |-> s.metadata,
                              dimension |-> NoDim, backend |-> s.backend]]]
    ELSE [exc |-> "TypeError", disk |-> EmptyFile]

\* save_index: open the file for writing, dump the four fields
SaveIndex(s) ==
    IF Picklable(s.index)
    THEN [exc |-> "none",
          disk |-> [state |-> "pickle",
                    data |-> [index |-> s.index, metadata |-> s.metadata,
                              dimension |-> s.dimension, backend |-> s.backend]]]
    ELSE [exc |-> "TypeError", disk |-> EmptyFile]

\* load_index without line 82: the probed backend is kept for a loaded artifact
LoadIndexKeepsProbed(s, dsk, env) ==
    IF dsk.state = "absent"
    THEN [exc |-> "none", store |-> [s EXCEPT !.index = NoIndex, !.metadata = <<>>]]
    ELSE IF dsk.state = "empty"
    THEN [exc |-> "EOFError", store |-> s]
    ELSE IF dsk.state = "embeddings"
    THEN [exc |-> "none",
          store |-> [s EXCEPT !.index = NoIndex, !.metadata = dsk.data.metadata,
                              !.dimension = NoDim]]
    ELSE IF ~Loadable(dsk.data.index, env)
    THEN [exc |-> "ModuleNotFoundError", store |-> s]
    ELSE [exc |-> "none",
          store |-> [s EXCEPT !.index = dsk.data.index,
                              !.metadata = dsk.data.metadata,
                              !.dimension = dsk.data.dimension]]

\* load_index: read the artifact if it exists; the persisted backend
\* identifier replaces the probed one, and a dict without the keys gives no
\* index, no dimension and the backend the object has. pickle.load raises before any field is
\* assigned, so an exception leaves the object as it was
LoadIndex(s, dsk, env) ==
    IF dsk.state = "absent"
    THEN [exc |-> "none", store |-> [s EXCEPT !.index = NoIndex, !.metadata = <<>>]]
    ELSE IF dsk.state = "empty"
    THEN [exc |-> "EOFError", store |-> s]
    ELSE IF dsk.state = "embeddings"
    THEN [exc |-> "none",
          store |-> [s EXCEPT !.index = NoIndex, !.metadata = dsk.data.metadata,
                              !.dimension = NoDim]]
    ELSE IF ~Loadable(dsk.data.index, env)
    THEN [exc |-> "ModuleNotFoundError", store |-> s]
    ELSE [exc |-> "none",
          store |-> [s EXCEPT !.index = dsk.data.index,
                              !.metadata = dsk.data.metadata,
                              !.dimension = dsk.data.dimension,
                              !.backend = dsk.data.backend]]

\* FlexibleVectorStore(index_name): import the module, probe, load
NewFlexibleVectorStore(env, dsk) ==
    IF ~ModuleImports(env)
    THEN [exc |-> "ModuleNotFoundError", store |-> FailedStore, probed |-> <<>>]
    ELSE LET b == InitBackend(env)
         IN IF b.exc # "none"
            THEN [exc |-> b.exc, store |-> FailedStore, probed |-> b.probed]
            ELSE LET l == LoadIndex([NewStore EXCEPT !.backend = b.backend,
                                                      !.module = b.backend], dsk, env)
                 IN [exc |-> l.exc,
                     store |-> IF l.exc = "none" THEN l.store ELSE FailedStore,
                     probed |-> b.probed]

(* ------------------------------- size() --------------------------------- *)

Size(s) ==
    IF s.backend = "faiss"
    THEN (IF s.index.kind # "None" THEN Len(s.index.vecs) ELSE 0)
    ELSE IF s.backend = "annoy"
    THEN (IF s.index.kind # "None" THEN Len(s.index.vecs) ELSE 0)
    ELSE IF s.backend = "sklearn"
    THEN (IF s.embeddings.has THEN Len(s.embeddings.rows) ELSE 0)
    ELSE (IF s.index.kind # "None" THEN Len(s.index.vecs) ELSE 0)

(* --------------------------- add_documents ------------------------------ *)

\* the documents of the runs, as (text, metadata): 'a' with each metadata, and
\* 'b' with a type
Documents == (Texts \X Metas) \ {<< <<"b">>, EmptyDict >>}

\* a batch is the list of (texts[i], metadatas[i]); the two lists have one length
Batches == UNION {[1..n -> Documents] : n \in 0..MaxBatch}

\* the metadata list passed to save_embeddings
MetadataLists == {<<EmptyDict>>}

\* index.add: append the rows; a first index is built with self.faiss, an
\* attribute only _init_faiss sets
AddFaiss(s, embeddings) ==
    LET idx == IF s.index.kind = "None" THEN [NoIndex EXCEPT !.kind = "faiss"] ELSE s.index
    IN IF s.index.kind = "None" /\ s.module # "faiss"
       THEN [exc |-> "AttributeError", store |-> s]
       ELSE [exc |-> "none",
             store |-> [s EXCEPT !.index = [idx EXCEPT !.vecs = @ \o embeddings]]]

\* add_item(i, embedding) for i, embedding in enumerate(embeddings): the i-th
\* row of the batch is stored under id i; then build(10)
AddAnnoy(s, embeddings) ==
    LET idx == IF s.index.kind = "None" THEN [NoIndex EXCEPT !.kind = "annoy"] ELSE s.index
        items == [i \in 1..Max(Len(idx.vecs), Len(embeddings)) |->
                     IF i <= Len(embeddings) THEN embeddings[i] ELSE idx.vecs[i]]
    IN IF s.index.kind = "None" /\ s.module # "annoy"
       THEN [exc |-> "AttributeError", store |-> s]
       ELSE IF idx.built
       THEN [exc |-> "Exception", store |-> [s EXCEPT !.index = [idx EXCEPT !.vecs = items]]]
       ELSE [exc |-> "none",
             store |-> [s EXCEPT !.index = [idx EXCEPT !.vecs = items, !.built = TRUE]]]

\* first batch: keep the rows in self.embeddings and fit; later: stack and refit
AddSklearn(s, embeddings) ==
    IF s.index.kind = "None" /\ s.module # "sklearn"
    THEN [exc |-> "AttributeError", store |-> s]
    ELSE IF s.index.kind = "None"
    THEN [exc |-> "none",
          store |-> [s EXCEPT !.index = [NoIndex EXCEPT !.kind = "sklearn", !.vecs = embeddings],
                              !.embeddings = [has |-> TRUE, rows |-> embeddings]]]
    ELSE IF ~s.embeddings.has
    THEN [exc |-> "AttributeError", store |-> s]
    ELSE [exc |-> "none",
          store |-> [s EXCEPT !.index = [@ EXCEPT !.vecs = s.embeddings.rows \o embeddings],
                              !.embeddings = [has |-> TRUE,
                                              rows |-> s.embeddings.rows \o embeddings]]]

\* self.index is the matrix itself
AddNumpy(s, embeddings) ==
    LET idx == IF s.index.kind = "None" THEN [NoIndex EXCEPT !.kind = "ndarray"] ELSE s.index
    IN [exc |-> "none", store |-> [s EXCEPT !.index = [idx EXCEPT !.vecs = @ \o embeddings]]]

\* add_documents that saves the index even when texts is empty
AddDocumentsSavesEmpty(s, dsk, batch) ==
    IF batch = <<>>
    THEN [exc |-> SaveIndex(s).exc, store |-> s, disk |-> SaveIndex(s).disk]
    ELSE LET embeddings == [i \in 1..Len(batch) |-> Embed(batch[i][1])]
             metadatas  == [i \in 1..Len(batch) |-> batch[i][2]]
             s1 == [s EXCEPT !.dimension = <<Dim(embeddings)>>]
             added == IF s.backend = "faiss" THEN AddFaiss(s1, embeddings)
                      ELSE IF s.backend = "annoy" THEN AddAnnoy(s1, embeddings)
                      ELSE IF s.backend = "sklearn" THEN AddSklearn(s1, embeddings)
                      ELSE AddNumpy(s1, embeddings)
         IN IF added.exc # "none"
            THEN [exc |-> added.exc, store |-> added.store, disk |-> dsk]
            ELSE LET s2 == [added.store EXCEPT !.metadata = @ \o metadatas]
                     saved == SaveIndex(s2)
                 IN [exc |-> saved.exc, store |-> s2, disk |-> saved.disk]

\* add_documents(texts, metadatas): the returned record holds the object and
\* the artifact afterwards and the exception that left the call, if one did
AddDocuments(s, dsk, batch) ==
    IF batch = <<>>
    THEN [exc |-> "none", store |-> s, disk |-> dsk]
    ELSE LET embeddings == [i \in 1..Len(batch) |-> Embed(batch[i][1])]
             metadatas  == [i \in 1..Len(batch) |-> batch[i][2]]
             s1 == [s EXCEPT !.dimension = <<Dim(embeddings)>>]
             added == IF s.backend = "faiss" THEN AddFaiss(s1, embeddings)
                      ELSE IF s.backend = "annoy" THEN AddAnnoy(s1, embeddings)
                      ELSE IF s.backend = "sklearn" THEN AddSklearn(s1, embeddings)
                      ELSE AddNumpy(s1, embeddings)
         IN IF added.exc # "none"
            THEN [exc |-> added.exc, store |-> added.store, disk |-> dsk]
            ELSE LET s2 == [added.store EXCEPT !.metadata = @ \o metadatas]
                     saved == SaveIndex(s2)
                 IN [exc |-> saved.exc, store |-> s2, disk |-> saved.disk]

(* -------------------------------- search -------------------------------- *)

\* all(metadata.get(key) == value for key, value in filter_metadata.items())
FilterMatch(metadata, filter) == \A p \in filter : DictGet(metadata, p[1]) = p[2]

FormatResultsUnfiltered(s, scores, indices, filter) ==
    SortDesc([i \in 1..Min(Len(scores), Len(indices)) |->
                 [score |-> scores[i], metadata |-> s.metadata[indices[i]]]])

\* _format_results: pair each score with the metadata at its id, drop ids
\* beyond the metadata and filtered-out documents, sort descending by score
FormatResults(s, scores, indices, filter) ==
    LET zipped == [i \in 1..Min(Len(scores), Len(indices)) |->
                      [score |-> scores[i], idx |-> indices[i]]]
        kept == SelectSeq(zipped, LAMBDA h :
                    /\ h.idx <= Len(s.metadata)
                    /\ (filter = EmptyDict \/ FilterMatch(s.metadata[h.idx], filter)))
        results == [i \in 1..Len(kept) |->
                       [score |-> kept[i].score, metadata |-> s.metadata[kept[i].idx]]]
    IN SortDesc(results)

\* the ids by their distance to the query, nearest first, lower id first on ties
Nearest(distances) ==
    SortAsc([i \in 1..Len(distances) |-> [idx |-> i, key |-> distances[i]]])

\* index.search(q, min(top_k, ntotal)): nearest first by squared L2 distance;
\* the distances themselves are handed on as the scores
SearchFaiss(s, q, top_k, filter) ==
    LET k == Min(top_k, Len(s.index.vecs))
        found == Take(Nearest([i \in 1..Len(s.index.vecs) |-> Rat(SqL2(q, s.index.vecs[i]), 1)]), k)
        indices == [p \in 1..Len(found) |-> found[p].idx]
        distances == [p \in 1..Len(found) |-> ScoreValue(found[p].key)]
    IN IF k <= 0 THEN [exc |-> "AssertionError", out |-> <<>>]
       ELSE [exc |-> "none", out |-> FormatResults(s, distances, indices, filter)]

\* squared angular distance 2 - 2 cos
Angular2(q, v) == RatSub(Rat(2, 1), Rat(2 * CosineOf[q, v][1], CosineOf[q, v][2]))

\* get_nns_by_vector(q, top_k, include_distances=True); similarity 1 / (1 + d)
SearchAnnoy(s, q, top_k, filter) ==
    LET found == Take(Nearest([i \in 1..Len(s.index.vecs) |-> Angular2(q, s.index.vecs[i])]), top_k)
        indices == [p \in 1..Len(found) |-> found[p].idx]
        similarities == [p \in 1..Len(found) |-> ScoreInvSqrt(found[p].key)]
    IN [exc |-> "none", out |-> FormatResults(s, similarities, indices, filter)]

\* cosine distance 1 - cos, as the fitted estimator computes it
CosineDistance(q, v) == RatSub(Rat(1, 1), CosineOf[q, v])

\* kneighbors(q, n_neighbors=min(top_k, len(self.embeddings))); similarity 1 - d
SearchSklearn(s, q, top_k, filter) ==
    IF ~s.embeddings.has THEN [exc |-> "AttributeError", out |-> <<>>]
    ELSE LET n == Min(top_k, Len(s.embeddings.rows))
             found == Take(Nearest([i \in 1..Len(s.index.vecs) |-> CosineDistance(q, s.index.vecs[i])]), n)
             indices == [p \in 1..Len(found) |-> found[p].idx]
             similarities == [p \in 1..Len(found) |->
                                 ScoreValue(RatSub(Rat(1, 1), found[p].key))]
         IN IF n <= 0 THEN [exc |-> "ValueError", out |-> <<>>]
            ELSE [exc |-> "none", out |-> FormatResults(s, similarities, indices, filter)]

\* cosine against every row, np.argsort(similarities)[-top_k:][::-1]
SearchNumpy(s, q, top_k, filter) ==
    LET similarities == [i \in 1..Len(s.index.vecs) |-> CosineOf[q, s.index.vecs[i]]]
        argsort == SortAsc([i \in 1..Len(similarities) |->
                               [idx |-> i, key |-> similarities[i]]])
        top == Reverse(LastK(argsort, top_k))
        top_indices == [p \in 1..Len(top) |-> top[p].idx]
        top_similarities == [p \in 1..Len(top) |-> ScoreValue(similarities[top_indices[p]])]
    IN [exc |-> "none", out |-> FormatResults(s, top_similarities, top_indices, filter)]

\* search(query, top_k, filter_metadata)
Search(s, query, top_k, filter) ==
    IF s.index.kind = "None" \/ Len(s.metadata) = 0
    THEN [exc |-> "none", out |-> <<>>]
    ELSE LET q == Embed(query)
         IN IF s.backend = "faiss" THEN SearchFaiss(s, q, top_k, filter)
            ELSE IF s.backend = "annoy" THEN SearchAnnoy(s, q, top_k, filter)
            ELSE IF s.backend = "sklearn" THEN SearchSklearn(s, q, top_k, filter)
            ELSE SearchNumpy(s, q, top_k, filter)

(* ----------------------- VectorStore (faiss only) ----------------------- *)

\* the two files <index_name>.faiss and <index_name>_meta.pkl
NoIndexFiles == [state |-> "absent", vecs |-> <<>>, metadata |-> <<>>]

\* VectorStore(index_name): load_index reads the two files when both exist
NewVectorStore(files) ==
    IF files.state = "present"
    THEN [index |-> [NoIndex EXCEPT !.kind = "faiss", !.vecs = files.vecs],
          metadata |-> files.metadata]
    ELSE [index |-> NoIndex, metadata |-> <<>>]

\* VectorStore.save_index: write the index and the metadata, if there is an index
VsSaveIndex(v, files) ==
    IF v.index.kind # "None"
    THEN [state |-> "present", vecs |-> v.index.vecs, metadata |-> v.metadata]
    ELSE files

\* VectorStore.add_documents(texts, metadatas), the texts already encoded as
\* EmbeddingService.encode does: append to the index and the metadata, save
VsAddDocuments(v, files, embeddings, metadatas) ==
    IF embeddings = <<>>
    THEN [store |-> v, files |-> files]
    ELSE LET idx == IF v.index.kind = "None" THEN [NoIndex EXCEPT !.kind = "faiss"]
                    ELSE v.index
             v1 == [index |-> [idx EXCEPT !.vecs = @ \o embeddings],
                    metadata |-> v.metadata \o metadatas]
         IN [store |-> v1, files |-> VsSaveIndex(v1, files)]

\* VectorStore.size
VsSize(v) == IF v.index.kind # "None" THEN Len(v.index.vecs) ELSE 0

\* VectorStore.search(query, top_k, filter_metadata): the min(top_k, ntotal)
\* nearest by squared L2 distance, without the ids beyond the metadata and the
\* documents the filter rejects, similarity 1 / (1 + dist), descending
VsSearch(v, query, top_k, filter) ==
    IF v.index.kind = "None" \/ Len(v.index.vecs) = 0
    THEN [exc |-> "none", out |-> <<>>]
    ELSE LET q == Embed(query)
             k == Min(top_k, Len(v.index.vecs))
             found == Take(Nearest([i \in 1..Len(v.index.vecs) |->
                                       Rat(SqL2(q, v.index.vecs[i]), 1)]), k)
             kept == SelectSeq(found, LAMBDA f :
                         /\ f.idx <= Len(v.metadata)
                         /\ (filter = EmptyDict \/ FilterMatch(v.metadata[f.idx], filter)))
             results == [p \in 1..Len(kept) |->
                            [score |-> ScoreValue(RatInv1p(kept[p].key)),
                             metadata |-> v.metadata[kept[p].idx]]]
         IN IF k <= 0 THEN [exc |-> "AssertionError", out |-> <<>>]
            ELSE [exc |-> "none", out |-> SortDesc(results)]

(* -------------------------------- strings -------------------------------- *)

\* A Python str is the sequence of its characters; Chars gives it for the
\* string literals of the code and the strings the runs use.
Chars(t) ==
    CASE t = "ERROR" -> <<"E", "R", "R", "O", "R">>
       [] t = "Code=" -> <<"C", "o", "d", "e", "=">>
       [] t = "Component=" -> <<"C", "o", "m", "p", "o", "n", "e", "n", "t", "=">>
       [] t = "..." -> <<".", ".", ".">>
       [] t = "x" -> <<"x">>
       [] t = "X" -> <<"X">>
       [] t = "zz" -> <<"z", "z">>
       [] t = "zz\ttimeout" -> <<"z", "z", "\t", "t", "i", "m", "e", "o", "u", "t">>
       [] t = "" -> <<>>
       [] t = "connection" -> <<"c", "o", "n", "n", "e", "c", "t", "i", "o", "n">>
       [] t = "timeout" -> <<"t", "i", "m", "e", "o", "u", "t">>
       [] t = "failed" -> <<"f", "a", "i", "l", "e", "d">>
       [] t = "error" -> <<"e", "r", "r", "o", "r">>
       [] t = "drop" -> <<"d", "r", "o", "p">>
       [] t = "crash" -> <<"c", "r", "a", "s", "h">>
       [] t = "DB" -> <<"D", "B">>
       [] t = "ERR" -> <<"E", "R", "R">>
       [] t = "ERR-001" -> <<"E", "R", "R", "-", "0", "0", "1">>
       [] t = "ERR-002" -> <<"E", "R", "R", "-", "0", "0", "2">>
       [] t = "ERR-404" -> <<"E", "R", "R", "-", "4", "0", "4">>
       [] t = "Db" -> <<"D", "b">>
       [] t = "ERROR Component=Db Code=DB x" -> <<"E", "R", "R", "O", "R", " ", "C", "o", "m", "p", "o", "n", "e", "n", "t", "=", "D", "b", " ", "C", "o", "d", "e", "=", "D", "B", " ", "x">>
       [] t = "INFO Code=DB x" -> <<"I", "N", "F", "O", " ", "C", "o", "d", "e", "=", "D", "B", " ", "x">>
       [] t = "ERROR Code=ERR-001 timeout" -> <<"E", "R", "R", "O", "R", " ", "C", "o", "d", "e", "=", "E", "R", "R", "-", "0", "0", "1", " ", "t", "i", "m", "e", "o", "u", "t">>
       [] t = "error x" -> <<"e", "r", "r", "o", "r", " ", "x">>
       [] t = "=== File: " -> <<"=", "=", "=", " ", "F", "i", "l", "e", ":", " ">>
       [] t = " ===" -> <<" ", "=", "=", "=">>
       [] t = "Error reading " -> <<"E", "r", "r", "o", "r", " ", "r", "e", "a", "d", "i", "n", "g", " ">>
       [] t = ": " -> <<":", " ">>
       [] t = ".log" -> <<".", "l", "o", "g">>
       [] t = ".error" -> <<".", "e", "r", "r", "o", "r">>
       [] t = ".info" -> <<".", "i", "n", "f", "o">>
       [] t = ".debug" -> <<".", "d", "e", "b", "u", "g">>
       [] t = ".txt" -> <<".", "t", "x", "t">>
       [] t = "d/a.log" -> <<"d", "/", "a", ".", "l", "o", "g">>
       [] t = "d/b.txt" -> <<"d", "/", "b", ".", "t", "x", "t">>
       [] t = "d/sub/b.txt" -> <<"d", "/", "s", "u", "b", "/", "b", ".", "t", "x", "t">>
       [] t = "d/notes.md" -> <<"d", "/", "n", "o", "t", "e", "s", ".", "m", "d">>
       [] t = "a.log" -> <<"a", ".", "l", "o", "g">>
       [] t = "[Errno 13] Permission denied: 'd/a.log'" -> <<"[", "E", "r", "r", "n", "o", " ", "1", "3", "]", " ", "P", "e", "r", "m", "i", "s", "s", "i", "o", "n", " ", "d", "e", "n", "i", "e", "d", ":", " ", "'", "d", "/", "a", ".", "l", "o", "g", "'">>
       [] t = "1Z - ERROR - Component=Database - Code=DB - Message=x" -> <<"1", "Z", " ", "-", " ", "E", "R", "R", "O", "R", " ", "-", " ", "C", "o", "m", "p", "o", "n", "e", "n", "t", "=", "D", "a", "t", "a", "b", "a", "s", "e", " ", "-", " ", "C", "o", "d", "e", "=", "D", "B", " ", "-", " ", "M", "e", "s", "s", "a", "g", "e", "=", "x">>
       [] t = "1Z - INFO - Message=x" -> <<"1", "Z", " ", "-", " ", "I", "N", "F", "O", " ", "-", " ", "M", "e", "s", "s", "a", "g", "e", "=", "x">>
       [] t = "1Z" -> <<"1", "Z">>
       [] t = "2025-12-18T01:59:40.2Z" -> <<"2", "0", "2", "5", "-", "1", "2", "-", "1", "8", "T", "0", "1", ":", "5", "9", ":", "4", "0", ".", "2", "Z">>
       [] t = "1" -> <<"1">>
       [] t = " - " -> <<" ", "-", " ">>
       [] t = "  -  " -> <<" ", " ", "-", " ", " ">>
       [] t = "-" -> <<"-">>
       [] t = "INFO" -> <<"I", "N", "F", "O">>
       [] t = "WARN_1" -> <<"W", "A", "R", "N", "_", "1">>
       [] t = "Database" -> <<"D", "a", "t", "a", "b", "a", "s", "e">>
       [] t = "API" -> <<"A", "P", "I">>
       [] t = "Db2" -> <<"D", "b", "2">>
       [] t = "E_DB_FAIL" -> <<"E", "_", "D", "B", "_", "F", "A", "I", "L">>
       [] t = "time-out" -> <<"t", "i", "m", "e", "-", "o", "u", "t">>
       [] t = "time" -> <<"t", "i", "m", "e">>
       [] t = "disk full" -> <<"d", "i", "s", "k", " ", "f", "u", "l", "l">>
       [] t = "Message=" -> <<"M", "e", "s", "s", "a", "g", "e", "=">>
       [] t = "App=U" -> <<"A", "p", "p", "=", "U">>
       [] t = "Unknown" -> <<"U", "n", "k", "n", "o", "w", "n">>
       [] t = "ok" -> <<"o", "k">>
       [] t = "E" -> <<"E">>
       [] t = "Z" -> <<"Z">>
       [] t = "Increase connection pool size, check network connectivity" -> <<"I", "n", "c", "r", "e", "a", "s", "e", " ", "c", "o", "n", "n", "e", "c", "t", "i", "o", "n", " ", "p", "o", "o", "l", " ", "s", "i", "z", "e", ",", " ", "c", "h", "e", "c", "k", " ", "n", "e", "t", "w", "o", "r", "k", " ", "c", "o", "n", "n", "e", "c", "t", "i", "v", "i", "t", "y">>
       [] t = "Check application logs, verify dependencies, restart service" -> <<"C", "h", "e", "c", "k", " ", "a", "p", "p", "l", "i", "c", "a", "t", "i", "o", "n", " ", "l", "o", "g", "s", ",", " ", "v", "e", "r", "i", "f", "y", " ", "d", "e", "p", "e", "n", "d", "e", "n", "c", "i", "e", "s", ",", " ", "r", "e", "s", "t", "a", "r", "t", " ", "s", "e", "r", "v", "i", "c", "e">>
       [] t = "Verify configuration files, ensure version compatibility" -> <<"V", "e", "r", "i", "f", "y", " ", "c", "o", "n", "f", "i", "g", "u", "r", "a", "t", "i", "o", "n", " ", "f", "i", "l", "e", "s", ",", " ", "e", "n", "s", "u", "r", "e", " ", "v", "e", "r", "s", "i", "o", "n", " ", "c", "o", "m", "p", "a", "t", "i", "b", "i", "l", "i", "t", "y">>
       [] t = "Rotate logs. Free disk space." -> <<"R", "o", "t", "a", "t", "e", " ", "l", "o", "g", "s", ".", " ", "F", "r", "e", "e", " ", "d", "i", "s", "k", " ", "s", "p", "a", "c", "e", ".">>
       [] t = "Rotate logs" -> <<"R", "o", "t", "a", "t", "e", " ", "l", "o", "g", "s">>
       [] t = "Free disk space" -> <<"F", "r", "e", "e", " ", "d", "i", "s", "k", " ", "s", "p", "a", "c", "e">>
       [] t = " " -> <<" ">>
       [] t = " x " -> <<" ", "x", " ">>
       [] t = "Restart." -> <<"R", "e", "s", "t", "a", "r", "t", ".">>
       [] t = "Restart" -> <<"R", "e", "s", "t", "a", "r", "t">>
       [] t = "a. b" -> <<"a", ".", " ", "b">>
       [] t = "a" -> <<"a">>
       [] t = "b" -> <<"b">>

\* the string a character sequence spells, for the steps of the solutions
StepNames == {"Increase connection pool size, check network connectivity",
              "Check application logs, verify dependencies, restart service",
              "Verify configuration files, ensure version compatibility",
              "Rotate logs", "Free disk space", "Restart", "x", "a", "b"}

StepStr(cs) == IF \E t \in StepNames : Chars(t) = cs
               THEN CHOOSE t \in StepNames : Chars(t) = cs
               ELSE "?"

UpperLetters == <<"A", "B", "C", "D", "E", "F", "G", "H", "I", "J", "K", "L", "M", "N", "O", "P", "Q", "R", "S", "T", "U", "V", "W", "X", "Y", "Z">>

LowerLetters == <<"a", "b", "c", "d", "e", "f", "g", "h", "i", "j", "k", "l", "m", "n", "o", "p", "q", "r", "s", "t", "u", "v", "w", "x", "y", "z">>

\* str.lower on one character
LowerChar(c) == IF \E i \in 1..Len(UpperLetters) : UpperLetters[i] = c
                THEN LowerLetters[CHOOSE i \in 1..Len(UpperLetters) : UpperLetters[i] = c]
                ELSE c

\* str.lower
Lower(str) == [i \in 1..Len(str) |-> LowerChar(str[i])]

\* sub in str
Contains(str, sub) ==
    \E i \in 0..(Len(str) - Len(sub)) : SubSeq(str, i + 1, i + Len(sub)) = sub

\* str.split(sep) for a one-character separator: the pieces between the
\* separators, always at least one piece
Split(str, sep) ==
    LET cuts == {0} \cup {i \in 1..Len(str) : str[i] = sep} \cup {Len(str) + 1}
        cut == [k \in 1..Cardinality(cuts) |->
                   CHOOSE c \in cuts : Cardinality({d \in cuts : d < c}) = k - 1]
    IN [k \in 1..(Cardinality(cuts) - 1) |-> SubSeq(str, cut[k] + 1, cut[k + 1] - 1)]

\* \s, and the characters str.split() splits at and str.strip() removes
Whitespace == {" ", "\t", "\n", "\r", "\f"}

\* str.split(): the pieces between runs of whitespace, none of them empty
SplitWords(str) ==
    LET cuts == {0} \cup {i \in 1..Len(str) : str[i] \in Whitespace} \cup {Len(str) + 1}
        cut == [k \in 1..Cardinality(cuts) |->
                   CHOOSE c \in cuts : Cardinality({d \in cuts : d < c}) = k - 1]
        pieces == [k \in 1..(Cardinality(cuts) - 1) |->
                      SubSeq(str, cut[k] + 1, cut[k + 1] - 1)]
    IN SelectSeq(pieces, LAMBDA w : w # <<>>)

\* str.strip()
Strip(str) ==
    LET keep == {i \in 1..Len(str) : str[i] \notin Whitespace}
    IN IF keep = {} THEN <<>>
       ELSE SubSeq(str, CHOOSE i \in keep : \A j \in keep : i <= j,
                        CHOOSE i \in keep : \A j \in keep : j <= i)

\* "\n".join(lines)
RECURSIVE JoinLines(_)
JoinLines(lines) ==
    IF lines = <<>> THEN <<>>
    ELSE IF Len(lines) = 1 THEN lines[1]
    ELSE lines[1] \o <<"\n">> \o JoinLines(Tail(lines))

ReSearchToBlank(prefix, class, line) ==
    LET n == Len(prefix)
        starts == {i \in 1..(Len(line) - n) :
                      SubSeq(line, i, i + n - 1) = prefix /\ line[i + n] # " "}
    IN IF starts = {} THEN [found |-> FALSE, group |-> <<>>]
       ELSE LET i == CHOOSE i \in starts : \A j \in starts : i <= j
                e == CHOOSE e \in (i + n)..Len(line) :
                         /\ \A j \in (i + n)..e : line[j] # " "
                         /\ (e = Len(line) \/ line[e + 1] = " ")
            IN [found |-> TRUE, group |-> SubSeq(line, i + n, e)]

\* re.search(prefix + "([class]+)", line): the leftmost place where the prefix
\* is followed by a character of the class, and the longest run from there
ReSearch(prefix, class, line) ==
    LET n == Len(prefix)
        starts == {i \in 1..(Len(line) - n) :
                      SubSeq(line, i, i + n - 1) = prefix /\ line[i + n] \in class}
    IN IF starts = {} THEN [found |-> FALSE, group |-> <<>>]
       ELSE LET i == CHOOSE i \in starts : \A j \in starts : i <= j
                e == CHOOSE e \in (i + n)..Len(line) :
                         /\ \A j \in (i + n)..e : line[j] \in class
                         /\ (e = Len(line) \/ line[e + 1] \notin class)
            IN [found |-> TRUE, group |-> SubSeq(line, i + n, e)]

\* [A-Z_]
UpperOrUnderscore == {UpperLetters[i] : i \in 1..Len(UpperLetters)} \cup {"_"}

\* [A-Za-z]
Letters == {UpperLetters[i] : i \in 1..Len(UpperLetters)}
           \cup {LowerLetters[i] : i \in 1..Len(LowerLetters)}

\* the sequences that list the elements of a set once each: what list(set(..))
\* may return, the iteration order of a set of strings being unspecified
Orderings(S) ==
    {o \in [1..Cardinality(S) -> S] : \A i, j \in 1..Cardinality(S) : o[i] = o[j] => i = j}

\* the elements of a sequence as a set
Range(seq) == {seq[i] : i \in 1..Len(seq)}

(* ----------------------------- KnowledgeBase ----------------------------- *)

\* KnowledgeEntry(issue, root_cause, solution, affected_components, tags):
\* the dataclass, confidence defaulting to 1.0
KnowledgeEntry(issue, root_cause, solution, affected_components, tags) ==
    [issue |-> issue, root_cause |-> root_cause, solution |-> solution,
     affected_components |-> affected_components, tags |-> tags,
     confidence |-> Rat(1, 1)]

\* the entries load_kb creates when the file does not exist
DefaultEntries ==
    << KnowledgeEntry("Database connection timeout",
                      "Connection pool exhausted or network latency",
                      "Increase connection pool size, check network connectivity",
                      <<"Database", "API">>, <<"database", "timeout", "connection">>),
       KnowledgeEntry("API 500 Internal Server Error",
                      "Application code error or missing dependency",
                      "Check application logs, verify dependencies, restart service",
                      <<"API", "Application Server">>, <<"api", "500", "server">>),
       KnowledgeEntry("Configuration mismatch",
                      "Version mismatch between services or incorrect settings",
                      "Verify configuration files, ensure version compatibility",
                      <<"All">>, <<"config", "version", "settings">>) >>

\* entry.__dict__ as json.dump writes it: one object with the six fields
EntryToJson(e) ==
    {<<"issue", e.issue>>, <<"root_cause", e.root_cause>>, <<"solution", e.solution>>,
     <<"affected_components", e.affected_components>>, <<"tags", e.tags>>,
     <<"confidence", e.confidence>>}

\* the fields of the dataclass without a default, and all of them
RequiredFields == {"issue", "root_cause", "solution", "affected_components", "tags"}

EntryFields == RequiredFields \cup {"confidence"}

\* KnowledgeEntry(**entry) that loses the tags of the object read
EntryFromJsonWithoutTags(d) ==
    IF (\E key \in RequiredFields : ~HasKey(d, key)) \/ (\E p \in d : p[1] \notin EntryFields)
    THEN [exc |-> "TypeError", entry |-> None]
    ELSE [exc |-> "none",
          entry |-> [issue |-> DictGet(d, "issue"), root_cause |-> DictGet(d, "root_cause"),
                     solution |-> DictGet(d, "solution"),
                     affected_components |-> DictGet(d, "affected_components"),
                     tags |-> <<>>,
                     confidence |-> GetOr(d, "confidence", Rat(1, 1))]]

\* KnowledgeEntry(**entry) on an object json.load read: TypeError when a
\* field without a default is missing or a key is no field, confidence 1.0
\* when the object has none
EntryFromJson(d) ==
    IF (\E key \in RequiredFields : ~HasKey(d, key)) \/ (\E p \in d : p[1] \notin EntryFields)
    THEN [exc |-> "TypeError", entry |-> None]
    ELSE [exc |-> "none",
          entry |-> [issue |-> DictGet(d, "issue"), root_cause |-> DictGet(d, "root_cause"),
                     solution |-> DictGet(d, "solution"),
                     affected_components |-> DictGet(d, "affected_components"),
                     tags |-> DictGet(d, "tags"),
                     confidence |-> GetOr(d, "confidence", Rat(1, 1))]]

\* the file fixes.json: absent, or a JSON list of objects
NoKbFile == [state |-> "absent", data |-> <<>>]

\* save_kb: dump every entry's __dict__
SaveKb(entries) ==
    [state |-> "json", data |-> [i \in 1..Len(entries) |-> EntryToJson(entries[i])]]

\* load_kb: read the file, or create the default entries and write them back;
\* an object KnowledgeEntry does not take ends the load with the exception
LoadKb(file) ==
    IF file.state = "json"
    THEN LET loaded == [i \in 1..Len(file.data) |-> EntryFromJson(file.data[i])]
         IN IF \E i \in 1..Len(loaded) : loaded[i].exc # "none"
            THEN [exc |-> "TypeError", entries |-> <<>>, file |-> file]
            ELSE [exc |-> "none", entries |-> [i \in 1..Len(loaded) |-> loaded[i].entry],
                  file |-> file]
    ELSE [exc |-> "none", entries |-> DefaultEntries, file |-> SaveKb(DefaultEntries)]

\* the text index_kb embeds for an entry: its issue, root cause and solution
KbText(e) == <<e.issue, e.root_cause, e.solution>>

\* EmbeddingService.encode on a KB text: a deterministic text -> vector table
EmbedText(text) == IF text[1] = "Database connection timeout" THEN <<1, 0>> ELSE <<3, 4>>

\* the metadata index_kb stores with the i-th entry (i counts from 0)
KbMetadata(i, e) ==
    {<<"id", i>>, <<"issue", e.issue>>, <<"root_cause", e.root_cause>>,
     <<"solution", e.solution>>, <<"affected_components", e.affected_components>>,
     <<"tags", e.tags>>, <<"type", "kb_fix">>}

\* index_kb: add_documents with a text and a metadata for every entry
IndexKb(k, files) ==
    LET texts == [i \in 1..Len(k.entries) |-> KbText(k.entries[i])]
        metadatas == [i \in 1..Len(k.entries) |-> KbMetadata(i - 1, k.entries[i])]
        r == VsAddDocuments(k.vector_store, files,
                            [i \in 1..Len(texts) |-> EmbedText(texts[i])], metadatas)
    IN [kb |-> [k EXCEPT !.vector_store = r.store], files |-> r.files]

\* no KnowledgeBase object
NoKb == [status |-> "none", entries |-> <<>>,
         vector_store |-> [index |-> NoIndex, metadata |-> <<>>]]

\* KnowledgeBase(): VectorStore("kb_index"), load_kb, index_kb
NewKnowledgeBase(file, files) ==
    LET l == LoadKb(file)
        k == [status |-> "ok", entries |-> l.entries, vector_store |-> NewVectorStore(files)]
        r == IndexKb(k, files)
    IN IF l.exc # "none"
       THEN [exc |-> l.exc, kb |-> NoKb, file |-> file, files |-> files]
       ELSE [exc |-> "none", kb |-> r.kb, file |-> l.file, files |-> r.files]

\* add_fix: append the new entry, save_kb, index_kb
AddFix(k, files, fix) ==
    LET k1 == [k EXCEPT !.entries = Append(@, fix)]
        r == IndexKb(k1, files)
    IN [kb |-> r.kb, file |-> SaveKb(k1.entries), files |-> r.files]

\* round(similarity, 3) on a non-negative rational: the nearest multiple of
\* 1/1000, and of two equally near ones the one with the even numerator
Round3(x) ==
    LET n == (1000 * x[1]) \div x[2]
        rest == 1000 * x[1] - n * x[2]
    IN Rat(IF 2 * rest < x[2] THEN n
           ELSE IF 2 * rest > x[2] THEN n + 1
           ELSE IF n % 2 = 0 THEN n ELSE n + 1, 1000)

\* search_similar_issues(query, top_k): metadata[key] raises KeyError for a
\* document stored without the key
SearchSimilarIssues(k, query, top_k) ==
    LET found == VsSearch(k.vector_store, query, top_k, EmptyDict)
        results == found.out
    IN IF found.exc # "none" THEN [exc |-> found.exc, out |-> <<>>]
       ELSE IF \E i \in 1..Len(results) :
                   \E key \in {"issue", "root_cause", "solution", "affected_components"} :
                       ~HasKey(results[i].metadata, key)
       THEN [exc |-> "KeyError", out |-> <<>>]
       ELSE [exc |-> "none", out |->
        [i \in 1..Len(results) |->
           LET similarity == results[i].score.q
               metadata == results[i].metadata
           IN [similarity |-> Round3(similarity),
               issue |-> DictGet(metadata, "issue"),
               root_cause |-> DictGet(metadata, "root_cause"),
               solution |-> DictGet(metadata, "solution"),
               affected_components |-> DictGet(metadata, "affected_components"),
               confidence |-> IF RatLess(Rat(8, 10), similarity) THEN "High"
                              ELSE IF RatLess(Rat(6, 10), similarity) THEN "Medium"
                              ELSE "Low"]]]

\* the static table of search_solutions
MockSolutions ==
    [c \in {Chars("ERR-001"), Chars("ERR-002")} |->
        IF c = Chars("ERR-001")
        THEN << [error_type |-> "Database Connection Timeout", component |-> "Database",
                 confidence |-> "High",
                 root_cause |-> "Connection pool exhaustion or network latency",
                 solution_steps |-> <<"Increase connection pool size in application.properties",
                                     "Check database server resources",
                                     "Verify network connectivity",
                                     "Add connection timeout retry logic">>,
                 prevention |-> "Monitor connection pool metrics regularly",
                 resources |-> <<"DB Connection Guide", "Troubleshooting Handbook">>] >>
        ELSE << [error_type |-> "Memory Overflow", component |-> "JVM",
                 confidence |-> "Medium",
                 root_cause |-> "Memory leak in application code",
                 solution_steps |-> <<"Increase heap size with -Xmx parameter",
                                     "Run memory profiler to identify leaks",
                                     "Check for infinite loops",
                                     "Review recent code changes">>,
                 prevention |-> "Regular memory profiling and code reviews",
                 resources |-> <<"JVM Tuning Guide", "Memory Management">>] >>]

\* [step.strip() for step in solution.split('.') if step.strip()]
SolutionSteps(solution) ==
    LET parts == Split(Chars(solution), ".")
        steps == SelectSeq([i \in 1..Len(parts) |-> Strip(parts[i])],
                           LAMBDA step : step # <<>>)
    IN [i \in 1..Len(steps) |-> StepStr(steps[i])]

VectorSolutionsNone(k, error_code) == <<>>

\* the solutions search_solutions builds from the similarity search
VectorSolutions(k, error_code) ==
    LET vector_results == SearchSimilarIssues(k, error_code, 2).out
    IN [i \in 1..Len(vector_results) |->
           LET result == vector_results[i]
           IN [error_type |-> result.issue,
               component |-> IF result.affected_components # <<>>
                             THEN result.affected_components[1] ELSE "Unknown",
               confidence |-> result.confidence,
               root_cause |-> result.root_cause,
               solution_steps |-> SolutionSteps(result.solution),
               prevention |-> "Regular monitoring and maintenance",
               resources |-> <<"Knowledge Base Entry">>]]

\* search_solutions that asks the vector index first and uses the static
\* table only when the index has nothing
SearchSolutionsVectorFirst(k, error_code) ==
    IF VectorSolutions(k, error_code) # <<>> \/ error_code \notin DOMAIN MockSolutions
    THEN [exc |-> SearchSimilarIssues(k, error_code, 2).exc,
          out |-> VectorSolutions(k, error_code), queried |-> TRUE]
    ELSE [exc |-> "none", out |-> MockSolutions[error_code], queried |-> TRUE]

\* search_solutions(error_code): the static table first, then the similarity
\* search with the code as the query; queried tells whether the index was asked
SearchSolutions(k, error_code) ==
    IF error_code \in DOMAIN MockSolutions
    THEN [exc |-> "none", out |-> MockSolutions[error_code], queried |-> FALSE]
    ELSE [exc |-> SearchSimilarIssues(k, error_code, 2).exc,
          out |-> VectorSolutions(k, error_code), queried |-> TRUE]

(* ------------------------------- LogParser ------------------------------ *)

Digits == {"0", "1", "2", "3", "4", "5", "6", "7", "8", "9"}

\* [\d\-T:.]
TimestampChars == Digits \cup {"-", "T", ":", "."}

\* \w
WordChars == Letters \cup Digits \cup {"_"}

\* the characters of the lines of the runs
Alphabet == WordChars \cup Whitespace \cup {"-", ":", ".", "="}

\* [^\-]
NotHyphen == Alphabet \ {"-"}

\* . (any character but a newline)
NotNewline == Alphabet \ {"\n"}

\* the end of the longest run of characters of the class that starts at
\* from; from - 1 when str[from] is not of the class
RunEnd(str, from, class) ==
    CHOOSE e \in (from - 1)..Max(Len(str), from - 1) :
        /\ \A j \in from..e : str[j] \in class
        /\ (e >= Len(str) \/ str[e + 1] \notin class)

\* \s+-\s+ at from: the place after it, 0 when it does not match there
Separator(str, from) ==
    LET a == RunEnd(str, from, Whitespace)
    IN IF a < from \/ a >= Len(str) \/ str[a + 1] # "-" THEN 0
       ELSE LET b == RunEnd(str, a + 2, Whitespace)
            IN IF b < a + 2 THEN 0 ELSE b + 1

\* re.match(pattern, str) for the pattern of parse_line: timestamp, level and
\* full_message, or no match
ReMatchLine(str) ==
    LET NoMatch == [found |-> FALSE, timestamp |-> <<>>, level |-> <<>>,
                    full_message |-> <<>>]
        Message(t, l, m, p) ==
            IF p = 0 \/ p > Len(str) \/ str[p] = "\n" THEN NoMatch
            ELSE [found |-> TRUE, timestamp |-> SubSeq(str, 1, t + 1),
                  level |-> SubSeq(str, l, m),
                  full_message |-> SubSeq(str, p, RunEnd(str, p, NotNewline))]
        Level(t, l) ==
            IF l = 0 THEN NoMatch
            ELSE CHOOSE r \in {IF m < l THEN NoMatch
                               ELSE Message(t, l, m, Separator(str, m + 1))
                               : m \in {RunEnd(str, l, WordChars)}} : TRUE
        Stamp(t) ==
            IF t < 1 \/ t >= Len(str) \/ str[t + 1] # "Z" THEN NoMatch
            ELSE CHOOSE r \in {Level(t, l) : l \in {Separator(str, t + 2)}} : TRUE
    IN CHOOSE r \in {Stamp(t) : t \in {RunEnd(str, 1, TimestampChars)}} : TRUE

\* no LogEntry: what parse_line returns for a line the pattern does not match
NoEntry == [parsed |-> FALSE, timestamp |-> <<>>, log_level |-> <<>>, component |-> <<>>,
            error_code |-> <<>>, message |-> <<>>, raw_line |-> <<>>]

\* parse_line(line, zone, client, app, version): the fields are character
\* sequences, error_code is <<>> for None and <<code>> otherwise; zone, client,
\* app and version are copied from the arguments and left out
ParseLine(line) ==
    LET Entry(match) ==
            IF ~match.found THEN NoEntry
            ELSE LET component_match == ReSearch(Chars("Component="), Letters, match.full_message)
                     code_match == ReSearch(Chars("Code="), UpperOrUnderscore, match.full_message)
                     message_match == ReSearch(Chars("Message="), NotHyphen, match.full_message)
                 IN [parsed |-> TRUE,
                     timestamp |-> match.timestamp,
                     log_level |-> match.level,
                     component |-> IF component_match.found THEN component_match.group
                                   ELSE Chars("Unknown"),
                     error_code |-> IF code_match.found THEN <<code_match.group>> ELSE <<>>,
                     message |-> IF message_match.found THEN Strip(message_match.group)
                                 ELSE match.full_message,
                     raw_line |-> Strip(line)]
    IN CHOOSE r \in {Entry(match) : match \in {ReMatchLine(Strip(line))}} : TRUE

(* ------------------------------- RAGEngine ------------------------------- *)

FindExactMatchesAnyLevel(query, log_text) ==
    SelectSeq(Split(log_text, "\n"), LAMBDA line : Contains(Lower(line), Lower(query)))

\* find_exact_matches(query, log_text): the lines that hold the query, case
\* ignored, and hold 'ERROR'
FindExactMatches(query, log_text) ==
    LET lines == Split(log_text, "\n")
        query_lower == Lower(query)
    IN SelectSeq(lines, LAMBDA line :
                     Contains(Lower(line), query_lower) /\ Contains(line, Chars("ERROR")))

KeywordsWithoutError ==
    <<Chars("connection"), Chars("timeout"), Chars("failed"), Chars("drop"), Chars("crash")>>

\* the keywords of find_similar_errors
Keywords == <<Chars("connection"), Chars("timeout"), Chars("failed"), Chars("error"),
              Chars("drop"), Chars("crash")>>

FindSimilarErrorsWithDuplicates(query, log_text) ==
    {SelectSeq(Split(log_text, "\n"), LAMBDA line : Contains(line, Chars("ERROR")))}

\* find_similar_errors(query, log_text): the 'ERROR' lines that hold a word of
\* the query or a keyword longer than 3 characters, each line once; the code
\* returns list(set(similar)), so every order of them is a possible result
FindSimilarErrors(query, log_text) ==
    LET lines == Split(log_text, "\n")
        query_words == SplitWords(Lower(query))
        similar == SelectSeq(lines, LAMBDA line :
                       /\ Contains(line, Chars("ERROR"))
                       /\ \E word \in Range(query_words \o Keywords) :
                              Contains(Lower(line), word) /\ Len(word) > 3)
    IN Orderings(Range(similar))

\* line[:100] + "..." if len(line) > 100 else line
SourceLine(line) == IF Len(line) > 100 THEN SubSeq(line, 1, 100) \o Chars("...") ELSE line

\* "\n".join(steps), as the lines of the joined text
JoinSteps(steps) == IF steps = <<>> THEN <<"">> ELSE steps

\* the body of the loop of get_relevant_solutions for one line: no solution
\* or one, or the exception search_solutions or search_similar_issues raises.
\* kb_results and similar_issues are each computed once, as the one element
\* of a singleton set.
SolutionsForLine(k, line) ==
    LET code_match == ReSearch(Chars("Code="), UpperOrUnderscore, line)
        error_code == code_match.group
        FromSimilar(similar_issues) ==
            IF similar_issues.exc # "none"
            THEN [exc |-> similar_issues.exc, out |-> <<>>]
            ELSE IF similar_issues.out # <<>>
            THEN [exc |-> "none",
                  out |-> << [error |-> similar_issues.out[1].issue,
                              solution |-> <<similar_issues.out[1].solution>>,
                              exact_match |-> FALSE,
                              source_line |-> SourceLine(line)] >>]
            ELSE [exc |-> "none", out |-> <<>>]
        FromKb(kb_results) ==
            IF kb_results.exc # "none"
            THEN [exc |-> kb_results.exc, out |-> <<>>]
            ELSE IF kb_results.out # <<>>
            THEN [exc |-> "none",
                  out |-> << [error |-> kb_results.out[1].error_type,
                              solution |-> JoinSteps(kb_results.out[1].solution_steps),
                              exact_match |-> TRUE,
                              source_line |-> SourceLine(line)] >>]
            ELSE CHOOSE s \in {FromSimilar(similar_issues) :
                                  similar_issues \in {SearchSimilarIssues(k, error_code, 1)}}
                     : TRUE
    IN IF ~code_match.found THEN [exc |-> "none", out |-> <<>>]
       ELSE CHOOSE s \in {FromKb(kb_results) :
                             kb_results \in {SearchSolutions(k, error_code)}} : TRUE

\* the loop of get_relevant_solutions over the lines: it ends at the first
\* line whose lookup raises
RECURSIVE SolutionsForLines(_, _)
SolutionsForLines(k, lines) ==
    IF lines = <<>> THEN [exc |-> "none", out |-> <<>>]
    ELSE LET Rest(first, rest) ==
                 IF rest.exc # "none" THEN rest
                 ELSE [exc |-> "none", out |-> first.out \o rest.out]
             First(first) ==
                 IF first.exc # "none" THEN first
                 ELSE CHOOSE r \in {Rest(first, rest) :
                                       rest \in {SolutionsForLines(k, Tail(lines))}} : TRUE
         IN CHOOSE r \in {First(first) : first \in {SolutionsForLine(k, Head(lines))}} : TRUE

\* get_relevant_solutions(error_lines): the loop over error_lines[:5]
GetRelevantSolutions(k, error_lines) == SolutionsForLines(k, Take(error_lines, 5))

\* the groups re.search(prefix + "([class]+)") finds in the lines that match
GroupsIn(prefix, class, lines) ==
    {ReSearch(prefix, class, lines[i]).group :
        i \in {j \in 1..Len(lines) : ReSearch(prefix, class, lines[j]).found}}

\* _generate_simple_rca: the report, by its parts (the text around them and
\* the time of the analysis are left out)
GenerateSimpleRca(query, log_data, error_lines, solutions) ==
    IF error_lines = <<>>
    THEN [found |-> FALSE, query |-> query, total_error_lines |-> 0,
          unique_error_types |-> 0, errors_shown |-> 0, fixes |-> <<>>]
    ELSE [found |-> TRUE, query |-> query, total_error_lines |-> Len(error_lines),
          unique_error_types |->
              Cardinality(GroupsIn(Chars("Code="), UpperOrUnderscore, error_lines)),
          errors_shown |-> Len(Take(error_lines, 3)),
          fixes |-> [i \in 1..Len(solutions) |-> solutions[i].error]]

\* log_data is None or a dict
NoLogData == [isNone |-> TRUE, items |-> EmptyDict]

LogData(items) == [isNone |-> FALSE, items |-> items]

\* bool(log_data): None and the empty dict are false
Truthy(log_data) == ~log_data.isNone /\ log_data.items # EmptyDict

\* log_data.get(key, default)

AllErrorLinesAnyLevel(log_text) == Split(log_text, "\n")

\* [line for line in log_text.split('\n') if 'ERROR' in line]
AllErrorLines(log_text) ==
    SelectSeq(Split(log_text, "\n"), LAMBDA line : Contains(line, Chars("ERROR")))

SimilarErrorsAlways(exact_matches, error_lines) == error_lines

\* "similar_errors": error_lines if not exact_matches else []
SimilarErrors(exact_matches, error_lines) ==
    IF exact_matches = <<>> THEN error_lines ELSE <<>>

NoLogDataAvailableNever(log_data) == FALSE

\* not log_data or 'raw' not in log_data
NoLogDataAvailable(log_data) == ~Truthy(log_data) \/ ~HasKey(log_data.items, "raw")

\* process_query(query, log_data), similar being what find_similar_errors
\* returns if it is called; steps lists the engine's steps that ran, exc is
\* the exception that leaves the call (of log_data['raw'], or of the lookup
\* of get_relevant_solutions).  Each of exact_matches, error_lines and
\* solutions is computed once, as a local variable of the method is: it is
\* the one element of a singleton set.
ProcessQuery(k, query, log_data, similar) ==
    IF NoLogDataAvailable(log_data)
    THEN [exc |-> "none", out |-> {<<"error", "No log data available">>}, steps |-> <<>>]
    ELSE IF log_data.isNone
    THEN [exc |-> "TypeError", out |-> EmptyDict, steps |-> <<>>]
    ELSE IF ~HasKey(log_data.items, "raw")
    THEN [exc |-> "KeyError", out |-> EmptyDict, steps |-> <<>>]
    ELSE LET log_text == DictGet(log_data.items, "raw")
             Steps(exact_matches) ==
                 <<"find_exact_matches">>
                 \o (IF exact_matches # <<>> THEN <<>> ELSE <<"find_similar_errors">>)
                 \o <<"get_relevant_solutions">>
             Result(exact_matches, error_lines, solutions) ==
                 LET all_error_lines == AllErrorLines(log_text)
                     all_components == GroupsIn(Chars("Component="), Letters, all_error_lines)
                     rca == GenerateSimpleRca(query, log_data, error_lines, solutions.out)
                 IN IF solutions.exc # "none"
                    THEN [exc |-> solutions.exc, out |-> EmptyDict,
                          steps |-> Steps(exact_matches)]
                    ELSE
                    [exc |-> "none",
                     out |-> {<<"rca", rca>>,
                              <<"exact_matches", exact_matches>>,
                              <<"similar_errors", SimilarErrors(exact_matches, error_lines)>>,
                              <<"solutions", solutions.out>>,
                              <<"log_stats",
                                {<<"total_errors", Len(all_error_lines)>>,
                                 <<"file_count", GetOr(log_data.items, "file_count", 0)>>,
                                 <<"unique_components", Cardinality(all_components)>>,
                                 <<"query_matches", Len(error_lines)>>}>>},
                     steps |-> Steps(exact_matches)]
             WithLines(exact_matches, error_lines) ==
                 CHOOSE r \in {Result(exact_matches, error_lines, solutions) :
                                  solutions \in {GetRelevantSolutions(k, error_lines)}} : TRUE
             WithMatches(exact_matches) ==
                 CHOOSE r \in {WithLines(exact_matches, error_lines) :
                                  error_lines \in {IF exact_matches # <<>>
                                                   THEN exact_matches ELSE similar}} : TRUE
         IN CHOOSE r \in {WithMatches(exact_matches) :
                             exact_matches \in {FindExactMatches(query, log_text)}} : TRUE

(* ------------------------------- the app -------------------------------- *)

\* the static table of search_by_component
ComponentSolutions ==
    [c \in {Chars("Database"), Chars("API")} |->
        IF c = Chars("Database")
        THEN << [error_type |-> "Connection Issues", component |-> "Database",
                 confidence |-> "High", root_cause |-> "Connection pool configuration",
                 solution_steps |-> <<"Check database connection string",
                                     "Verify database credentials",
                                     "Test network connectivity",
                                     "Review connection pool settings">>] >>
        ELSE << [error_type |-> "Rate Limiting", component |-> "API",
                 confidence |-> "Medium",
                 root_cause |-> "Too many requests to external service",
                 solution_steps |-> <<"Implement request throttling",
                                     "Add circuit breaker pattern",
                                     "Cache API responses",
                                     "Contact API provider for quota increase">>] >>]

\* search_by_component(component)
SearchByComponent(component) ==
    IF component \in DOMAIN ComponentSolutions THEN ComponentSolutions[component] ELSE <<>>

\* d with d[key] = value
DictSet(d, key, value) == {p \in d : p[1] # key} \cup {<<key, value>>}

\* the loop over the error codes: kb_solutions.extend(kb.search_solutions(code));
\* it ends at the first code whose lookup raises
RECURSIVE SolutionsForCodes(_, _)
SolutionsForCodes(k, codes) ==
    IF codes = <<>> THEN [exc |-> "none", out |-> <<>>]
    ELSE LET Rest(first, rest) ==
                 IF rest.exc # "none" THEN rest
                 ELSE [exc |-> "none", out |-> first.out \o rest.out]
             First(first) ==
                 IF first.exc # "none" THEN [exc |-> first.exc, out |-> <<>>]
                 ELSE CHOOSE r \in {Rest(first, rest) :
                                       rest \in {SolutionsForCodes(k, Tail(codes))}} : TRUE
         IN CHOOSE r \in {First(first) : first \in {SearchSolutions(k, Head(codes))}} : TRUE

\* the loop over the components: kb_solutions.extend(kb.search_by_component(c))
RECURSIVE SolutionsForComponents(_)
SolutionsForComponents(components) ==
    IF components = <<>> THEN <<>>
    ELSE SearchByComponent(Head(components)) \o SolutionsForComponents(Tail(components))

\* the error codes of the structured logs: set(log.error_code ...) without None and ''
ErrorCodesOf(structured_logs) ==
    {structured_logs[i].error_code[1] :
        i \in {j \in 1..Len(structured_logs) : structured_logs[j].error_code # <<>>}}
    \ {<<>>}

\* the components of the structured logs, without ''
ComponentsOf(structured_logs) ==
    {structured_logs[i].component : i \in 1..Len(structured_logs)} \ {<<>>}

\* the results dict analyze_logs starts from
EmptyResults(log_data) ==
    {<<"log_stats", EmptyDict>>, <<"log_data", log_data>>, <<"exact_matches", <<>>>>,
     <<"kb_solutions", <<>>>>, <<"error_lines", <<>>>>, <<"similar_errors", <<>>>>}

\* analyze_logs(log_data, query, rag_engine, kb) with an engine and a knowledge
\* base.  run holds what the run makes of the unspecified: similar is what
\* find_similar_errors returns if called, error_codes and components are
\* list(error_codes) and list(unique_components), kb_raises tells that
\* kb.search_solutions raises when it is called, for a reason outside the
\* knowledge base's documents.  message is what the except clause shows.
AnalyzeLogs(k, log_data, query, run) ==
    IF ~Truthy(log_data) \/ ~HasKey(log_data.items, "structured")
    THEN [out |-> EmptyResults(log_data), message |-> "none", steps |-> <<>>]
    ELSE LET structured_logs == DictGet(log_data.items, "structured")
             errors == SelectSeq(structured_logs, LAMBDA log : log.log_level = Chars("ERROR"))
             r1 == DictSet(EmptyResults(log_data), "log_stats",
                           {<<"file_count", GetOr(log_data.items, "file_count", 0)>>,
                            <<"total_errors", Len(errors)>>,
                            <<"unique_components",
                              Cardinality(ComponentsOf(structured_logs))>>})
             r2 == DictSet(r1, "error_lines", errors)
             raw_log_text == GetOr(log_data.items, "raw", <<>>)
             exact_matches == FindExactMatches(query, raw_log_text)
             r3 == DictSet(r2, "exact_matches", exact_matches)
             r4 == IF exact_matches = <<>>
                   THEN DictSet(r3, "similar_errors", Take(run.similar, 5)) ELSE r3
             by_code == SolutionsForCodes(k, Take(run.error_codes, 3))
             kb_solutions == by_code.out \o SolutionsForComponents(Take(run.components, 2))
             steps == <<"find_exact_matches">>
                      \o (IF exact_matches # <<>> THEN <<>> ELSE <<"find_similar_errors">>)
         IN IF query = <<>>
            THEN [out |-> r2, message |-> "none", steps |-> <<>>]
            ELSE IF \/ run.kb_raises /\ Take(run.error_codes, 3) # <<>>
                    \/ by_code.exc # "none"
            THEN [out |-> r4, message |-> "Error during analysis", steps |-> steps]
            ELSE [out |-> DictSet(r4, "kb_solutions", Take(kb_solutions, 5)),
                  message |-> "none", steps |-> steps]

\* get_relevant_solutions(error_lines) calls the knowledge base
LooksUpKb(error_lines) ==
    \E i \in 1..Len(Take(error_lines, 5)) :
        ReSearch(Chars("Code="), UpperOrUnderscore, error_lines[i]).found

\* st.session_state without results.  has tells that the key 'results' is
\* set; log_data is NoLogData while the key 'log_data' is not set
NoSession == [has |-> FALSE, results |-> EmptyDict, log_data |-> NoLogData]

\* the script run of an 'Analyze' click: read_logs, analyze_logs,
\* process_query, merge, store in the session.  read is what read_logs
\* returned; run.rag_raises tells that the knowledge base lookup of
\* process_query raises, for a reason outside the knowledge base's
\* documents.  exc is the exception that leaves the script,
\* messages what st.error showed, writes whether the run reaches the two
\* assignments to st.session_state.  The results of analyze_logs and of
\* process_query are each computed once, as the elements of singleton sets.
AnalyzeClick(sess, k, rag_kb, read, query, run) ==
    IF read.error # None
    THEN [session |-> sess, messages |-> <<read.error>>, exc |-> "none", writes |-> FALSE]
    ELSE LET Merge(a, rca_result) ==
                 LET pq_lines == IF HasKey(rca_result.out, "exact_matches")
                                 THEN (IF DictGet(rca_result.out, "exact_matches") # <<>>
                                       THEN DictGet(rca_result.out, "exact_matches")
                                       ELSE DictGet(rca_result.out, "similar_errors"))
                                 ELSE <<>>
                     shown == IF a.message = "none" THEN <<>> ELSE <<a.message>>
                     merged ==
                         DictSet(DictSet(DictSet(a.out,
                             "rca", GetOr(rca_result.out, "rca", "No RCA generated")),
                             "solutions", GetOr(rca_result.out, "solutions", <<>>)),
                             "log_stats",
                             DictSet(GetOr(a.out, "log_stats", EmptyDict), "query_matches",
                                     GetOr(GetOr(rca_result.out, "log_stats", EmptyDict),
                                           "query_matches", 0)))
                 IN IF rca_result.exc # "none"
                    THEN [session |-> sess, messages |-> shown, exc |-> rca_result.exc,
                          writes |-> FALSE]
                    ELSE IF run.rag_raises /\ LooksUpKb(pq_lines)
                    THEN [session |-> sess, messages |-> shown, exc |-> "Exception",
                          writes |-> FALSE]
                    ELSE [session |-> [has |-> TRUE, results |-> merged,
                                       log_data |-> read.log_data],
                          messages |-> shown, exc |-> "none", writes |-> TRUE]
         IN CHOOSE click \in
                {Merge(a, rca_result) :
                    a \in {AnalyzeLogs(k, read.log_data, query, run)},
                    rca_result \in {ProcessQuery(rag_kb, query, read.log_data, run.similar)}}
                : TRUE

\* the run of a click, click being what it does when it is left alone, when
\* the script runner handles a stop or rerun request of the browser at an
\* access to st.session_state, which ends the run there: at the assignment
\* of results nothing is written yet, at the assignment of log_data results
\* is written and log_data is what it was before the click.  A run that does
\* not reach the assignments is not stopped at them.
StopAt(sess, click, stop) ==
    IF ~click.writes \/ stop = "none"
    THEN [session |-> click.session, stop |-> "none"]
    ELSE IF stop = "results"
    THEN [session |-> sess, stop |-> stop]
    ELSE [session |-> [click.session EXCEPT !.log_data = sess.log_data], stop |-> stop]

(* ------------------------------- the state ------------------------------ *)

VARIABLES
    store,    \* the FlexibleVectorStore object of the running process
    disk,     \* the artifact <index_name>.pkl
    last,     \* the last call: its arguments, the object before it, what it returned
    proc,     \* whether the process that holds the object can import faiss, sklearn
    kb,       \* the KnowledgeBase object of the running process
    kbfile,   \* the file fixes.json
    kbindex,  \* the files kb_index.faiss and kb_index_meta.pkl
    klast,    \* the last KnowledgeBase call
    req,      \* the arguments of an engine call: query, log_data, knowledge base
    rlast,    \* the engine call made with them and what it returned
    session,  \* st.session_state: results and log_data of the last analysis
    alast,    \* the last 'Analyze' click and what the script run did
    clicks,   \* the number of 'Analyze' clicks so far
    pline,    \* the parts of the line given to parse_line
    plast,    \* the parse_line call made with it and what it returned
    cdisk,    \* the on-disk index two store objects share
    cinst     \* the two store objects and where each is in load, add, save

storevars == <<store, disk, last, proc>>

kbvars == <<kb, kbfile, kbindex, klast>>

ragvars == <<req, rlast>>

appvars == <<session, alast, clicks>>

parsevars == <<pline, plast>>

concvars == <<cdisk, cinst>>

vars == <<storevars, kbvars, ragvars, appvars, parsevars, concvars>>

NoEnv == [faiss |-> FALSE, annoy |-> "absent", sklearn |-> FALSE]

\* no process holds an object
NoProc == [faiss |-> FALSE, sklearn |-> FALSE]

NoCall == [op |-> "none", env |-> NoEnv, probed |-> <<>>, batch |-> <<>>, pre |-> NoStore,
           predisk |-> NoFile, query |-> <<>>, top_k |-> 0, filter |-> EmptyDict,
           exc |-> "none", out |-> <<>>]

\* no KnowledgeBase call yet
NoKbCall == [op |-> "none", exc |-> "none", pre |-> NoKb, file |-> NoKbFile,
             error_code |-> <<>>, top_k |-> 0, queried |-> FALSE, out |-> <<>>]

\* nothing of the knowledge base exists
KbIdle == /\ kb = NoKb
          /\ kbfile = NoKbFile
          /\ kbindex = NoIndexFiles
          /\ klast = NoKbCall

\* nothing of the vector store exists
StoreIdle == /\ store = NoStore
             /\ disk = NoFile
             /\ last = NoCall
             /\ proc = NoProc

\* no engine call
NoRequest == [query |-> <<>>, log_data |-> NoLogData, kb |-> NoKb]

NoRagCall == [op |-> "none", exc |-> "none", out |-> EmptyDict, lines |-> <<>>,
              solutions |-> <<>>,
              similar |-> <<>>, message |-> "none", steps |-> <<>>]

RagIdle == /\ req = NoRequest
           /\ rlast = NoRagCall

\* no 'Analyze' click
NoClick == [op |-> "none", pre |-> NoSession, read_error |-> None, kb_raises |-> FALSE,
            rag_raises |-> FALSE, messages |-> <<>>, exc |-> "none", stop |-> "none"]

AppIdle == /\ session = NoSession
           /\ alast = NoClick
           /\ clicks = 0

\* no parse_line call
NoParts == [pad |-> <<>>, stamp |-> <<>>, sep |-> <<>>, level |-> <<>>, component |-> <<>>,
            code |-> <<>>, message |-> <<>>, suffix |-> <<>>]

NoParse == [op |-> "none", line |-> <<>>, out |-> NoEntry]

ParseIdle == /\ pline = NoParts
             /\ plast = NoParse

\* no shared index and no object over it
NoArtifact == [class |-> "none", pkl |-> NoFile,
               faiss |-> [exists |-> FALSE, cut |-> FALSE, vecs |-> <<>>],
               meta |-> [exists |-> FALSE, cut |-> FALSE, metadata |-> <<>>], writer |-> 0]

NoInstance == [pc |-> "none", store |-> NoStore, base |-> NoArtifact, batch |-> <<>>]

ConcIdle == /\ cdisk = NoArtifact
            /\ cinst = [i \in 1..2 |-> NoInstance]

Init == StoreIdle /\ KbIdle /\ RagIdle /\ AppIdle /\ ParseIdle /\ ConcIdle

\* a process constructs FlexibleVectorStore(index_name) in environment env
Construct(env) ==
    LET r == NewFlexibleVectorStore(env, disk)
    IN /\ store' = r.store
       /\ last' = [NoCall EXCEPT !.op = "construct", !.env = env, !.probed = r.probed,
                                 !.exc = r.exc]
       /\ proc' = IF r.exc = "none"
                  THEN [faiss |-> env.faiss, sklearn |-> env.sklearn] ELSE NoProc
       /\ UNCHANGED <<disk, kbvars, ragvars, appvars, parsevars, concvars>>

\* store.load_index() on the object of the running process; no artifact
\* holds an AnnoyIndex (pickle cannot dump one), so of what the process can
\* import only faiss and sklearn matter to the load
Load ==
    /\ store.status = "ok"
    /\ LET r == LoadIndex(store, disk, proc)
       IN /\ store' = r.store
          /\ last' = [NoCall EXCEPT !.op = "load_index", !.exc = r.exc]
    /\ UNCHANGED <<disk, proc, kbvars, ragvars, appvars, parsevars, concvars>>

\* store.save_index() on the object of the running process
Save ==
    /\ store.status = "ok"
    /\ LET r == SaveIndex(store)
       IN /\ disk' = r.disk
          /\ last' = [NoCall EXCEPT !.op = "save_index", !.exc = r.exc]
    /\ UNCHANGED <<store, proc, kbvars, ragvars, appvars, parsevars, concvars>>

\* store.embedding_service.save_embeddings(embeddings, metadata, name)
PutEmbeddings(metadata, name) ==
    /\ store.status = "ok"
    /\ disk' = SaveEmbeddings(disk, metadata, name)
    /\ last' = [NoCall EXCEPT !.op = "save_embeddings"]
    /\ UNCHANGED <<store, proc, kbvars, ragvars, appvars, parsevars, concvars>>

\* store.add_documents(texts, metadatas)
Add(batch) ==
    /\ store.status = "ok"
    /\ Len(store.metadata) + Len(batch) <= MaxDocs
    /\ LET r == AddDocuments(store, disk, batch)
       IN /\ store' = r.store
          /\ disk' = r.disk
          /\ last' = [NoCall EXCEPT !.op = "add", !.batch = batch, !.pre = store,
                                    !.predisk = disk, !.exc = r.exc]
    /\ UNCHANGED <<proc, kbvars, ragvars, appvars, parsevars, concvars>>

\* store.search(query, top_k, filter_metadata)
DoSearch(query, top_k, filter) ==
    /\ store.status = "ok"
    /\ LET r == Search(store, query, top_k, filter)
       IN last' = [NoCall EXCEPT !.op = "search", !.query = query, !.top_k = top_k,
                                 !.filter = filter, !.exc = r.exc, !.out = r.out]
    /\ UNCHANGED <<store, disk, proc, kbvars, ragvars, appvars, parsevars, concvars>>

Next == \/ \E env \in Envs : Construct(env)
        \/ Load
        \/ Save
        \/ \E metadata \in MetadataLists : PutEmbeddings(metadata, IndexName)
        \/ \E batch \in Batches : Add(batch)
        \/ \E query \in Texts, top_k \in 0..MaxTopK, filter \in Filters :
               DoSearch(query, top_k, filter)

Spec == Init /\ [][Next]_vars

(* ------------------------ the knowledge base runs ----------------------- *)

\* the arguments add_fix is called with
Fixes ==
    { KnowledgeEntry("Disk full", "Log volume out of space",
                     "Rotate logs. Free disk space.", <<"Storage">>, <<"disk">>),
      KnowledgeEntry("Cache miss storm", "Cache was flushed", "",
                     <<>>, <<"cache">>) }

\* the error codes search_solutions is asked for
ErrorCodes == {Chars("ERR-001"), Chars("ERR-002"), Chars("ERR-404")}

\* an entry as a hand-written fixes.json holds it, without the key
WrittenWithout(key) ==
    [state |-> "json",
     data |-> << {p \in EntryToJson(KnowledgeEntry("Disk full", "Log volume out of space",
                                                   "Rotate logs. Free disk space.",
                                                   <<"Storage">>, <<"disk">>)) :
                     p[1] # key} >>]

\* fixes.json at the start: not there, holding an empty list, or written by
\* hand with one entry that lacks the confidence or the tags
KbFiles == {NoKbFile, SaveKb(<<>>), WrittenWithout("confidence"), WrittenWithout("tags")}

\* the batch passed to kb.vector_store.add_documents: one document whose
\* metadata has no key of index_kb
KbBatches == {<< [embedding |-> <<1, 0>>, metadata |-> {<<"type", "note">>}] >>}

\* the queries of search_similar_issues
KbQueries == {Chars("a"), Chars("ERR-404")}

InitKB == /\ StoreIdle
          /\ RagIdle
          /\ AppIdle
          /\ ParseIdle
          /\ ConcIdle
          /\ kb = NoKb
          /\ kbfile \in KbFiles
          /\ kbindex = NoIndexFiles
          /\ klast = NoKbCall

\* a process constructs KnowledgeBase(); an exception of load_kb leaves it
\* without the object
KbConstruct ==
    LET r == NewKnowledgeBase(kbfile, kbindex)
    IN /\ VsSize(r.kb.vector_store) <= MaxKbDocs
       /\ kb' = r.kb
       /\ kbfile' = r.file
       /\ kbindex' = r.files
       /\ klast' = [NoKbCall EXCEPT !.op = "construct", !.exc = r.exc, !.pre = kb,
                                    !.file = kbfile]
       /\ UNCHANGED <<storevars, ragvars, appvars, parsevars, concvars>>

\* kb.load_kb() on the object: the entries are the file's, the index stays
KbLoadKb ==
    /\ kb.status = "ok"
    /\ LET l == LoadKb(kbfile)
       IN /\ kb' = IF l.exc = "none" THEN [kb EXCEPT !.entries = l.entries] ELSE kb
          /\ kbfile' = l.file
          /\ klast' = [NoKbCall EXCEPT !.op = "load_kb", !.exc = l.exc, !.pre = kb,
                                       !.file = kbfile]
    /\ UNCHANGED <<kbindex, storevars, ragvars, appvars, parsevars, concvars>>

\* kb.save_kb() on the object
KbSaveKb ==
    /\ kb.status = "ok"
    /\ kbfile' = SaveKb(kb.entries)
    /\ klast' = [NoKbCall EXCEPT !.op = "save_kb"]
    /\ UNCHANGED <<kb, kbindex, storevars, ragvars, appvars, parsevars, concvars>>

\* kb.index_kb() on the object: every entry is added to the index once more
KbIndexKb ==
    /\ kb.status = "ok"
    /\ LET r == IndexKb(kb, kbindex)
       IN /\ VsSize(r.kb.vector_store) <= MaxKbDocs
          /\ kb' = r.kb
          /\ kbindex' = r.files
          /\ klast' = [NoKbCall EXCEPT !.op = "index_kb"]
    /\ UNCHANGED <<kbfile, storevars, ragvars, appvars, parsevars, concvars>>

\* kb.vector_store.load_index() on the object
KbVsLoadIndex ==
    /\ kb.status = "ok"
    /\ kb' = [kb EXCEPT !.vector_store = NewVectorStore(kbindex)]
    /\ klast' = [NoKbCall EXCEPT !.op = "vs_load_index"]
    /\ UNCHANGED <<kbfile, kbindex, storevars, ragvars, appvars, parsevars, concvars>>

\* kb.vector_store.save_index() on the object
KbVsSaveIndex ==
    /\ kb.status = "ok"
    /\ kbindex' = VsSaveIndex(kb.vector_store, kbindex)
    /\ klast' = [NoKbCall EXCEPT !.op = "vs_save_index"]
    /\ UNCHANGED <<kb, kbfile, storevars, ragvars, appvars, parsevars, concvars>>

\* kb.vector_store.add_documents(texts, metadatas) on the object
KbVsAddDocuments(batch) ==
    /\ kb.status = "ok"
    /\ VsSize(kb.vector_store) + Len(batch) <= MaxKbDocs
    /\ LET r == VsAddDocuments(kb.vector_store, kbindex,
                               [i \in 1..Len(batch) |-> batch[i].embedding],
                               [i \in 1..Len(batch) |-> batch[i].metadata])
       IN /\ kb' = [kb EXCEPT !.vector_store = r.store]
          /\ kbindex' = r.files
          /\ klast' = [NoKbCall EXCEPT !.op = "vs_add_documents"]
    /\ UNCHANGED <<kbfile, storevars, ragvars, appvars, parsevars, concvars>>

\* kb.add_fix(issue, root_cause, solution, affected_components, tags)
KbAddFix(fix) ==
    /\ kb.status = "ok"
    /\ Len(kb.entries) < MaxKbEntries
    /\ LET r == AddFix(kb, kbindex, fix)
       IN /\ VsSize(r.kb.vector_store) <= MaxKbDocs
          /\ kb' = r.kb
          /\ kbfile' = r.file
          /\ kbindex' = r.files
          /\ klast' = [NoKbCall EXCEPT !.op = "add_fix"]
    /\ UNCHANGED <<storevars, ragvars, appvars, parsevars, concvars>>

\* kb.search_similar_issues(query, top_k)
KbSearchSimilarIssues(query, top_k) ==
    /\ kb.status = "ok"
    /\ LET r == SearchSimilarIssues(kb, query, top_k)
       IN klast' = [NoKbCall EXCEPT !.op = "search_similar_issues", !.exc = r.exc,
                                    !.error_code = query, !.top_k = top_k, !.out = r.out]
    /\ UNCHANGED <<kb, kbfile, kbindex, storevars, ragvars, appvars, parsevars, concvars>>

\* kb.search_solutions(error_code)
KbSearchSolutions(error_code) ==
    /\ kb.status = "ok"
    /\ LET r == SearchSolutions(kb, error_code)
       IN klast' = [NoKbCall EXCEPT !.op = "search_solutions", !.exc = r.exc,
                                    !.error_code = error_code,
                                    !.queried = r.queried, !.out = r.out]
    /\ UNCHANGED <<kb, kbfile, kbindex, storevars, ragvars, appvars, parsevars, concvars>>

NextKB == \/ KbConstruct
          \/ KbLoadKb
          \/ KbSaveKb
          \/ KbIndexKb
          \/ KbVsLoadIndex
          \/ KbVsSaveIndex
          \/ \E batch \in KbBatches : KbVsAddDocuments(batch)
          \/ \E fix \in Fixes : KbAddFix(fix)
          \/ \E query \in KbQueries, top_k \in 0..MaxTopK : KbSearchSimilarIssues(query, top_k)
          \/ \E error_code \in ErrorCodes : KbSearchSolutions(error_code)

SpecKB == InitKB /\ [][NextKB]_vars

(* --------------------------- the engine's calls -------------------------- *)

\* the log lines of the runs: an ERROR line with a component and a code, an
\* INFO line with the same code, an ERROR line with a code of the static
\* table of search_solutions, a line with 'error' in lower case
LogLines == {Chars("ERROR Component=Db Code=DB x"), Chars("INFO Code=DB x"),
             Chars("ERROR Code=ERR-001 timeout"), Chars("error x")}

\* the raw texts, lines joined by "\n": every text of up to MaxMixed lines, and
\* the texts of up to MaxLines lines in which two lines alternate
LogTexts ==
    {JoinLines(lines) : lines \in UNION {[1..n -> LogLines] : n \in 0..MaxMixed}}
    \cup {JoinLines([i \in 1..n |-> IF i % 2 = 1 THEN a ELSE b])
          : <<a, b, n>> \in LogLines \X LogLines \X (1..MaxLines)}

\* the queries: in lower case, in upper case, one no line holds, one of two
\* words with a tab between them
Queries == {Chars("x"), Chars("X"), Chars("zz"), Chars("zz\ttimeout")}

\* log_data: None, {}, a dict without 'raw', and dicts with the keys of
\* read_logs for a text none of whose lines parse_line accepts
LogDatas ==
    {NoLogData, LogData(EmptyDict), LogData({<<"file_count", 1>>})}
    \cup {LogData({<<"raw", text>>, <<"structured", <<>>>>, <<"file_count", 1>>})
          : text \in LogTexts}

\* the knowledge bases init_services builds, on a first start: RAGEngine()
\* constructs its own, then KnowledgeBase() constructs the app's
EngineKb == NewKnowledgeBase(NoKbFile, NoIndexFiles)

AppKb == NewKnowledgeBase(EngineKb.file, EngineKb.files)

\* the knowledge bases of the runs: the engine's, one without entries, and
\* two whose index holds a document that kb.vector_store.add_documents(['a'],
\* [{'type': 'note'}]) added, after no add_fix and after one
Kbs ==
    LET empty == NewKnowledgeBase(SaveKb(<<>>), NoIndexFiles)
        fixed == AddFix(empty.kb, empty.files,
                        KnowledgeEntry("Disk full", "Log volume out of space",
                                       "Rotate logs. Free disk space.",
                                       <<"Storage">>, <<"disk">>))
        WithNote(k, files) ==
            [k EXCEPT !.vector_store =
                VsAddDocuments(@, files, <<Embed(<<"a">>)>>, <<{<<"type", "note">>}>>).store]
    IN {EngineKb.kb, empty.kb, WithNote(empty.kb, empty.files),
        WithNote(fixed.kb, fixed.files)}

InitRAG == /\ StoreIdle
           /\ KbIdle
           /\ AppIdle
           /\ ParseIdle
           /\ ConcIdle
           /\ req \in [query : Queries, log_data : LogDatas, kb : Kbs]
           /\ rlast = NoRagCall

\* the text of req.log_data, '' when there is none
RawOf(log_data) == GetOr(log_data.items, "raw", <<>>)

\* rag_engine.find_exact_matches(query, log_text)
RunFindExactMatches ==
    /\ rlast.op = "none"
    /\ rlast' = [NoRagCall EXCEPT !.op = "find_exact_matches",
                                  !.lines = FindExactMatches(req.query, RawOf(req.log_data))]
    /\ UNCHANGED <<req, storevars, kbvars, appvars, parsevars, concvars>>

\* rag_engine.find_similar_errors(query, log_text)
RunFindSimilarErrors ==
    /\ rlast.op = "none"
    /\ \E similar \in FindSimilarErrors(req.query, RawOf(req.log_data)) :
          rlast' = [NoRagCall EXCEPT !.op = "find_similar_errors", !.lines = similar]
    /\ UNCHANGED <<req, storevars, kbvars, appvars, parsevars, concvars>>

\* rag_engine.get_relevant_solutions(error_lines) on the lines of the text
RunGetRelevantSolutions ==
    /\ rlast.op = "none"
    /\ \E error_lines \in {Split(RawOf(req.log_data), "\n")} :
          \E r \in {GetRelevantSolutions(req.kb, error_lines)} :
             rlast' = [NoRagCall EXCEPT !.op = "get_relevant_solutions", !.exc = r.exc,
                                        !.lines = error_lines, !.solutions = r.out]
    /\ UNCHANGED <<req, storevars, kbvars, appvars, parsevars, concvars>>

\* rag_engine.process_query(query, log_data)
RunProcessQuery ==
    /\ rlast.op = "none"
    /\ \E similar \in FindSimilarErrors(req.query, RawOf(req.log_data)) :
           \E r \in {ProcessQuery(req.kb, req.query, req.log_data, similar)} :
              rlast' = [NoRagCall EXCEPT !.op = "process_query", !.exc = r.exc,
                                         !.out = r.out,
                                         !.similar = similar, !.steps = r.steps]
    /\ UNCHANGED <<req, storevars, kbvars, appvars, parsevars, concvars>>

\* analyze_logs(log_data, query, rag_engine, kb)
RunAnalyzeLogs ==
    /\ rlast.op = "none"
    /\ \E similar \in FindSimilarErrors(req.query, RawOf(req.log_data)) :
           \E r \in {AnalyzeLogs(req.kb, req.log_data, req.query,
                                  [similar |-> similar, error_codes |-> <<>>,
                                   components |-> <<>>, kb_raises |-> FALSE])} :
              rlast' = [NoRagCall EXCEPT !.op = "analyze_logs", !.out = r.out,
                                         !.similar = similar, !.message = r.message,
                                         !.steps = r.steps]
    /\ UNCHANGED <<req, storevars, kbvars, appvars, parsevars, concvars>>

NextRAG == \/ RunFindExactMatches
           \/ RunFindSimilarErrors
           \/ RunGetRelevantSolutions
           \/ RunProcessQuery
           \/ RunAnalyzeLogs

SpecRAG == InitRAG /\ [][NextRAG]_vars

(* --------------------------- the 'Analyze' click ------------------------- *)

\* the lines of the log file a.log: an ERROR line with a component and a
\* code, an INFO line with neither
ErrorLine == Chars("1Z - ERROR - Component=Database - Code=DB - Message=x")

InfoLine == Chars("1Z - INFO - Message=x")

\* os.path.basename(path)
Basename(path) ==
    LET cuts == {i \in 1..Len(path) : path[i] = "/"}
    IN IF cuts = {} THEN path
       ELSE SubSeq(path, 1 + CHOOSE i \in cuts : \A j \in cuts : j <= i, Len(path))

\* file.endswith(('.log', '.error', '.info', '.debug', '.txt'))
IsLogFile(file) ==
    \E suffix \in {Chars(".log"), Chars(".error"), Chars(".info"), Chars(".debug"),
                    Chars(".txt")} :
        /\ Len(suffix) <= Len(file)
        /\ SubSeq(file, Len(file) - Len(suffix) + 1, Len(file)) = suffix

\* a byte sequence that is not UTF-8, as one element of a file's bytes
InvalidByte == "\\xff"

\* the newlines of a file read in text mode: '\r\n' and '\r' become '\n'
RECURSIVE UniversalNewlines(_)
UniversalNewlines(str) ==
    IF str = <<>> THEN <<>>
    ELSE IF str[1] = "\r"
    THEN <<"\n">> \o UniversalNewlines(IF Len(str) >= 2 /\ str[2] = "\n"
                                        THEN SubSeq(str, 3, Len(str)) ELSE Tail(str))
    ELSE <<str[1]>> \o UniversalNewlines(Tail(str))

\* open(log_file, 'r', encoding='utf-8', errors='ignore').read(): the bytes
\* that are not UTF-8 are dropped, the newlines translated
ReadText(bytes) == UniversalNewlines(SelectSeq(bytes, LAMBDA c : c # InvalidByte))

\* the records parse_line returns for the lines of a content that are not blank
ParsedLines(content) ==
    LET lines == SelectSeq(Split(content, "\n"), LAMBDA line : Strip(line) # <<>>)
        parsed == [i \in 1..Len(lines) |-> ParseLine(lines[i])]
    IN SelectSeq(parsed, LAMBDA log : log.parsed)

\* the loop of read_logs over the log files: all_logs and structured_logs.  A
\* file is its path, its bytes and, when open raises, <<str(e)>>
RECURSIVE ReadFiles(_)
ReadFiles(log_files) ==
    IF log_files = <<>> THEN [all_logs |-> <<>>, structured_logs |-> <<>>]
    ELSE LET log_file == Head(log_files)
             Loop(content, rest) ==
                 IF log_file.error # <<>>
                 THEN [all_logs |-> <<Chars("Error reading ") \o log_file.path \o Chars(": ")
                                      \o log_file.error[1]>> \o rest.all_logs,
                       structured_logs |-> rest.structured_logs]
                 ELSE [all_logs |-> <<Chars("=== File: ") \o Basename(log_file.path)
                                      \o Chars(" ===") \o <<"\n">> \o content>>
                                    \o rest.all_logs,
                       structured_logs |-> ParsedLines(content) \o rest.structured_logs]
         IN CHOOSE r \in {Loop(content, rest) : content \in {ReadText(log_file.bytes)},
                                                rest \in {ReadFiles(Tail(log_files))}} : TRUE

\* read_logs(zone, client, app, version, sub_version) on the directory of the
\* path: whether it exists, and its files in the order os.walk lists them.
\* The path itself is left out of the two error texts, and zone, client, app
\* and version, which are copied from the arguments, out of the dict.
ReadLogs(dir) ==
    LET log_files == SelectSeq(dir.files, LAMBDA f : IsLogFile(Basename(f.path)))
        Result(read) ==
            [log_data |-> LogData({<<"raw", JoinLines(read.all_logs)>>,
                                   <<"structured", read.structured_logs>>,
                                   <<"file_count", Len(log_files)>>}),
             error |-> None]
    IN IF ~dir.exists
       THEN [log_data |-> NoLogData, error |-> "Log path does not exist"]
       ELSE IF log_files = <<>>
       THEN [log_data |-> NoLogData, error |-> "No log files found"]
       ELSE CHOOSE r \in {Result(read) : read \in {ReadFiles(log_files)}} : TRUE

\* the directories of the clicks: none; one without a log file; a.log empty,
\* with the INFO line, with the ERROR line; a.log written with '\r\n' and
\* with a byte that is not UTF-8; two log files, one of them in a
\* subdirectory, and a file that is no log file; a.log that cannot be opened
\* next to a log file that can
Dirs ==
    LET File(path, bytes) == [path |-> Chars(path), bytes |-> bytes, error |-> <<>>]
        Dir(files) == [exists |-> TRUE, files |-> files]
    IN {[exists |-> FALSE, files |-> <<>>],
        Dir(<<File("d/notes.md", ErrorLine)>>),
        Dir(<<File("d/a.log", <<>>)>>),
        Dir(<<File("d/a.log", InfoLine)>>),
        Dir(<<File("d/a.log", ErrorLine)>>),
        Dir(<<File("d/a.log", ErrorLine \o <<"\r", "\n">> \o InfoLine
                              \o <<InvalidByte, "\r">>)>>),
        Dir(<<File("d/a.log", ErrorLine), File("d/notes.md", ErrorLine),
              File("d/sub/b.txt", InfoLine)>>),
        Dir(<<[path |-> Chars("d/a.log"), bytes |-> <<>>,
               error |-> <<Chars("[Errno 13] Permission denied: 'd/a.log'")>>],
              File("d/b.txt", ErrorLine)>>)}

\* what read_logs returns on them
Reads == {ReadLogs(dir) : dir \in Dirs}

\* the queries of the clicks: one the ERROR line holds, one no line holds
AppQueries == {Chars("x"), Chars("zz")}

InitApp == StoreIdle /\ KbIdle /\ RagIdle /\ AppIdle /\ ParseIdle /\ ConcIdle

\* one run of the script after a click on 'Analyze', with the services
\* init_services built.  The run draws the orders list(set(..)) yields and
\* whether a knowledge base lookup raises, in analyze_logs (kb_raises) and in
\* process_query (rag_raises), and whether the script runner stops the run
\* at one of its two assignments to st.session_state (stop).
Analyze(read, query) ==
    /\ clicks < MaxClicks
    /\ clicks' = clicks + 1
    /\ \E similar \in FindSimilarErrors(query, RawOf(read.log_data)),
          error_codes \in Orderings(ErrorCodesOf(GetOr(read.log_data.items, "structured", <<>>))),
          components \in Orderings(ComponentsOf(GetOr(read.log_data.items, "structured", <<>>))),
          kb_raises \in BOOLEAN, rag_raises \in BOOLEAN :
          \E r \in {AnalyzeClick(session, AppKb.kb, EngineKb.kb, read, query,
                                 [similar |-> similar, error_codes |-> error_codes,
                                  components |-> components, kb_raises |-> kb_raises,
                                  rag_raises |-> rag_raises])},
             stop \in {"none", "results", "log_data"} :
             \E run \in {StopAt(session, r, stop)} :
                /\ session' = run.session
                /\ alast' = [op |-> "analyze", pre |-> session, read_error |-> read.error,
                             kb_raises |-> (r.messages = <<"Error during analysis">>),
                             rag_raises |-> (r.exc # "none"),
                             messages |-> r.messages, exc |-> r.exc, stop |-> run.stop]
    /\ UNCHANGED <<storevars, kbvars, ragvars, parsevars, concvars>>

NextApp == \E read \in Reads, query \in AppQueries : Analyze(read, query)

SpecApp == InitApp /\ [][NextApp]_vars

(* ------------------------------- parse_line ------------------------------ *)

\* the parts a log line is written from: blanks around it, a timestamp, the
\* separator, a level, and the tail's fields, each there or not
Pads == {<<>>, <<" ">>}

Stamps == {Chars("1Z"), Chars("2025-12-18T01:59:40.2Z"), Chars("1")}

Seps == {Chars(" - "), Chars("  -  "), Chars("-")}

Levels == {Chars("ERROR"), Chars("WARN_1"), <<>>}

ComponentValues == {Chars("Database"), Chars("Db2")}

CodeValues == {Chars("DB"), Chars("E_DB_FAIL"), Chars("ERR-001")}

MessageValues == {Chars("x"), Chars("time-out"), Chars("disk full")}

\* a part that is not there is <<>>, a part with the value v is <<v>>
Optional(values) == {<<>>} \cup {<<v>> : v \in values}

LineParts == [pad : Pads, stamp : Stamps, sep : Seps, level : Levels,
              component : Optional(ComponentValues), code : Optional(CodeValues),
              message : Optional(MessageValues), suffix : Optional({Chars("App=U")})]

\* the fields of the tail, joined by ' - '; 'ok' when there is no field
RECURSIVE JoinFields(_)
JoinFields(fields) ==
    IF fields = <<>> THEN <<>>
    ELSE IF Len(fields) = 1 THEN fields[1]
    ELSE fields[1] \o Chars(" - ") \o JoinFields(Tail(fields))

TailOf(parts) ==
    LET fields == (IF parts.component = <<>> THEN <<>>
                   ELSE <<Chars("Component=") \o parts.component[1]>>)
                  \o (IF parts.code = <<>> THEN <<>> ELSE <<Chars("Code=") \o parts.code[1]>>)
                  \o (IF parts.message = <<>> THEN <<>>
                      ELSE <<Chars("Message=") \o parts.message[1]>>)
                  \o parts.suffix
    IN IF fields = <<>> THEN Chars("ok") ELSE JoinFields(fields)

\* the line: pad, timestamp, separator, level, separator, tail, pad
LineOf(parts) ==
    parts.pad \o parts.stamp \o parts.sep \o parts.level \o parts.sep \o TailOf(parts)
    \o parts.pad

InitParse == /\ StoreIdle
             /\ KbIdle
             /\ RagIdle
             /\ AppIdle
             /\ ConcIdle
             /\ pline \in LineParts
             /\ plast = NoParse

\* LogParser.parse_line(line, zone, client, app, version)
Parse ==
    /\ plast.op = "none"
    /\ \E line \in {LineOf(pline)} :
          plast' = [op |-> "parse_line", line |-> line, out |-> ParseLine(line)]
    /\ UNCHANGED <<pline, storevars, kbvars, ragvars, appvars, concvars>>

NextParse == Parse

SpecParse == InitParse /\ [][NextParse]_vars

(* ------------------- two store objects over one index ------------------- *)

\* the process environment of both objects: every backend can be imported
ConcEnv == [faiss |-> TRUE, annoy |-> "ok", sklearn |-> TRUE]

\* the batches of the two callers
ConcBatches == {batch \in Batches : Len(batch) <= 1}

\* the files of a VectorStore as load_index sees them: both must exist
FilesOf(d) ==
    IF d.faiss.exists /\ d.meta.exists
    THEN [state |-> "present", vecs |-> d.faiss.vecs, metadata |-> d.meta.metadata]
    ELSE NoIndexFiles

\* the index on disk before the two objects are built: nothing, or what one
\* add_documents(['a'], [{}]) of an earlier process left
ArtifactsOf(class) ==
    IF class = "flexible"
    THEN {[NoArtifact EXCEPT !.class = class],
          [NoArtifact EXCEPT !.class = class,
                             !.pkl = AddDocuments(NewFlexibleVectorStore(ConcEnv, NoFile).store,
                                                  NoFile, << << <<"a">>, EmptyDict >> >>).disk]}
    ELSE {[NoArtifact EXCEPT !.class = class],
          [NoArtifact EXCEPT !.class = class,
                             !.faiss = [exists |-> TRUE, cut |-> FALSE,
                                        vecs |-> <<Embed(<<"a">>)>>],
                             !.meta = [exists |-> TRUE, cut |-> FALSE,
                                       metadata |-> <<EmptyDict>>]]}

InitConc == /\ StoreIdle
            /\ KbIdle
            /\ RagIdle
            /\ AppIdle
            /\ ParseIdle
            /\ cdisk \in ArtifactsOf("flexible") \cup ArtifactsOf("vector")
            /\ cinst = [i \in 1..2 |-> [NoInstance EXCEPT !.pc = "new"]]

\* __init__ of object i, up to the first read of load_index.  The
\* FlexibleVectorStore reads its one file: pickle.load raises EOFError on a
\* file another object has opened for writing and not yet written, and the
\* constructor ends without the object.  The VectorStore, when both files
\* exist, reads the index with faiss.read_index, which raises on a file
\* another object's faiss.write_index has opened and not yet written, and
\* has the metadata still to read; when one is missing it starts empty.
\* base is what the object read.
CLoad(i) ==
    /\ cinst[i].pc = "new"
    /\ cinst' = [cinst EXCEPT ![i] =
                    IF cdisk.class = "flexible"
                    THEN IF cdisk.pkl.state = "empty"
                         THEN [NoInstance EXCEPT !.pc = "failed"]
                         ELSE [pc |-> "loaded",
                               store |-> NewFlexibleVectorStore(ConcEnv, cdisk.pkl).store,
                               base |-> [cdisk EXCEPT !.writer = 0],
                               batch |-> <<>>]
                    ELSE IF cdisk.faiss.exists /\ cdisk.meta.exists /\ cdisk.faiss.cut
                         THEN [NoInstance EXCEPT !.pc = "failed"]
                         ELSE IF cdisk.faiss.exists /\ cdisk.meta.exists
                         THEN [pc |-> "index_read",
                               store |-> [index |-> [NoIndex EXCEPT !.kind = "faiss",
                                                                    !.vecs = cdisk.faiss.vecs],
                                          metadata |-> <<>>],
                               base |-> [NoArtifact EXCEPT !.class = cdisk.class,
                                                           !.faiss = cdisk.faiss],
                               batch |-> <<>>]
                         ELSE [pc |-> "loaded",
                               store |-> NewVectorStore(NoIndexFiles),
                               base |-> [NoArtifact EXCEPT !.class = cdisk.class],
                               batch |-> <<>>]]
    /\ UNCHANGED <<cdisk, storevars, kbvars, ragvars, appvars, parsevars>>

\* VectorStore.load_index of object i, second read: open(meta_path, 'rb') and
\* pickle.load of the metadata as the file is now; EOFError on a file another
\* object has opened for writing and not yet written
CReadMeta(i) ==
    /\ cdisk.class = "vector"
    /\ cinst[i].pc = "index_read"
    /\ cinst' = [cinst EXCEPT ![i] =
                    IF cdisk.meta.cut
                    THEN [NoInstance EXCEPT !.pc = "failed"]
                    ELSE [@ EXCEPT !.pc = "loaded",
                                   !.store.metadata = cdisk.meta.metadata,
                                   !.base.meta = cdisk.meta]]
    /\ UNCHANGED <<cdisk, storevars, kbvars, ragvars, appvars, parsevars>>

\* add_documents of object i up to its call of save_index: nothing for an
\* empty batch, else the vectors and the metadata are appended in memory
CMutate(i, batch) ==
    /\ cinst[i].pc = "loaded"
    /\ cinst' = [cinst EXCEPT ![i] =
                    IF batch = <<>> THEN [@ EXCEPT !.pc = "done"]
                    ELSE [@ EXCEPT !.pc = "mutated",
                                   !.batch = batch,
                                   !.store = IF cdisk.class = "flexible"
                                             THEN AddDocuments(@, cdisk.pkl, batch).store
                                             ELSE VsAddDocuments(
                                                      @, FilesOf(cdisk),
                                                      [j \in 1..Len(batch) |-> Embed(batch[j][1])],
                                                      [j \in 1..Len(batch) |-> batch[j][2]]).store]]
    /\ UNCHANGED <<cdisk, storevars, kbvars, ragvars, appvars, parsevars>>

\* FlexibleVectorStore.save_index of object i, first half: open(save_path,
\* 'wb') leaves the one file empty
COpen(i) ==
    /\ cdisk.class = "flexible"
    /\ cinst[i].pc = "mutated"
    /\ cdisk' = [cdisk EXCEPT !.pkl = EmptyFile]
    /\ cinst' = [cinst EXCEPT ![i].pc = "opened"]
    /\ UNCHANGED <<storevars, kbvars, ragvars, appvars, parsevars>>

\* FlexibleVectorStore.save_index of object i, second half: pickle.dump
CSave(i) ==
    /\ cdisk.class = "flexible"
    /\ cinst[i].pc = "opened"
    /\ cdisk' = [cdisk EXCEPT !.pkl = SaveIndex(cinst[i].store).disk, !.writer = i]
    /\ cinst' = [cinst EXCEPT ![i].pc = "done"]
    /\ UNCHANGED <<storevars, kbvars, ragvars, appvars, parsevars>>

\* VectorStore.save_index of object i, first step: faiss.write_index opens
\* the index file for writing, which leaves it empty
COpenIndex(i) ==
    /\ cdisk.class = "vector"
    /\ cinst[i].pc = "mutated"
    /\ cdisk' = [cdisk EXCEPT !.faiss = [exists |-> TRUE, cut |-> TRUE, vecs |-> <<>>]]
    /\ cinst' = [cinst EXCEPT ![i].pc = "index_opened"]
    /\ UNCHANGED <<storevars, kbvars, ragvars, appvars, parsevars>>

\* VectorStore.save_index of object i, second step: faiss.write_index writes
\* the index into the file, from its start: whatever another object wrote
\* since the file was opened, a later read_index reads this index
CWriteIndex(i) ==
    /\ cdisk.class = "vector"
    /\ cinst[i].pc = "index_opened"
    /\ cdisk' = [cdisk EXCEPT !.faiss = [exists |-> TRUE, cut |-> FALSE,
                                         vecs |-> cinst[i].store.index.vecs]]
    /\ cinst' = [cinst EXCEPT ![i].pc = "index_written"]
    /\ UNCHANGED <<storevars, kbvars, ragvars, appvars, parsevars>>

\* VectorStore.save_index of object i, third step: open(meta_path, 'wb')
\* leaves the metadata file empty
COpenMeta(i) ==
    /\ cdisk.class = "vector"
    /\ cinst[i].pc = "index_written"
    /\ cdisk' = [cdisk EXCEPT !.meta = [exists |-> TRUE, cut |-> TRUE, metadata |-> <<>>]]
    /\ cinst' = [cinst EXCEPT ![i].pc = "meta_opened"]
    /\ UNCHANGED <<storevars, kbvars, ragvars, appvars, parsevars>>

\* VectorStore.save_index of object i, last step: pickle.dump of the metadata
CWriteMeta(i) ==
    /\ cdisk.class = "vector"
    /\ cinst[i].pc = "meta_opened"
    /\ cdisk' = [cdisk EXCEPT !.meta = [exists |-> TRUE, cut |-> FALSE,
                                        metadata |-> cinst[i].store.metadata],
                              !.writer = i]
    /\ cinst' = [cinst EXCEPT ![i].pc = "done"]
    /\ UNCHANGED <<storevars, kbvars, ragvars, appvars, parsevars>>

NextConc == \/ \E i \in 1..2 : CLoad(i)
            \/ \E i \in 1..2 : CReadMeta(i)
            \/ \E i \in 1..2, batch \in ConcBatches : CMutate(i, batch)
            \/ \E i \in 1..2 : COpen(i)
            \/ \E i \in 1..2 : CSave(i)
            \/ \E i \in 1..2 : COpenIndex(i)
            \/ \E i \in 1..2 : CWriteIndex(i)
            \/ \E i \in 1..2 : COpenMeta(i)
            \/ \E i \in 1..2 : CWriteMeta(i)

SpecConc == InitConc /\ [][NextConc]_vars

(* ======================================================================= *)
(*                               the claims                                *)
(* ======================================================================= *)

\* the last call was add_documents with a non-empty batch
AddedBatch == last.op = "add" /\ last.batch # <<>>

\* C1: every add_documents call with a non-empty batch of n documents leaves
\* size() at its value before the call plus n, on every backend.
C1_SizeGrowsByBatch ==
    AddedBatch => Size(store) = Size(last.pre) + Len(last.batch)

\* C2: in every state of a constructed store, size() equals len(metadata).
C2_SizeIsMetadataLength ==
    store.status = "ok" => Size(store) = Len(store.metadata)

\* C3: after add_documents the ids of the earlier documents still hold their
\* vectors (no overwrite, no renumbering), the batch got the next ids, and
\* metadata[i] is the metadata passed with the text whose vector has id i.
C3_IdsFollowInsertionOrder ==
    AddedBatch =>
        LET n0 == Len(last.pre.index.vecs)
            n  == Len(last.batch)
        IN /\ Len(store.index.vecs) = n0 + n
           /\ Len(store.metadata) = n0 + n
           /\ \A i \in 1..n0 : /\ store.index.vecs[i] = last.pre.index.vecs[i]
                               /\ store.metadata[i] = last.pre.metadata[i]
           /\ \A j \in 1..n : /\ store.index.vecs[n0 + j] = Embed(last.batch[j][1])
                              /\ store.metadata[n0 + j] = last.batch[j][2]

\* C4: search(query, top_k) returns at most min(top_k, size()) results, for
\* every backend and every top_k >= 0, top_k = 0 included.
C4_AtMostTopK ==
    (last.op = "search" /\ last.exc = "none")
        => Len(last.out) <= Min(last.top_k, Size(store))

\* C5: with a non-empty filter, every returned metadata has every key of the
\* filter, with the filter's value.
C5_ResultsContainFilter ==
    (last.op = "search" /\ last.filter # EmptyDict)
        => \A i \in 1..Len(last.out) : \A p \in last.filter :
               /\ HasKey(last.out[i].metadata, p[1])
               /\ DictGet(last.out[i].metadata, p[1]) = p[2]

\* C6: whenever size() is 0, search returns the empty sequence and does not
\* raise, also on a store that was built by reloading an artifact.
C6_EmptyStoreSearchesEmpty ==
    (last.op = "search" /\ Size(store) = 0)
        => (last.exc = "none" /\ last.out = <<>>)

\* the last call constructed a store over a readable-or-not pickled artifact,
\* and its probing ran
ConstructedOverArtifact ==
    last.op = "construct" /\ disk.state = "pickle" /\ ModuleImports(last.env)

\* the object that built the artifact and saved it: its fields are the dumped
\* ones, its module attribute is its backend's, and on sklearn it holds the
\* rows in self.embeddings
SavedObject(dsk) ==
    [NewStore EXCEPT !.backend = dsk.data.backend, !.module = dsk.data.backend,
                     !.index = dsk.data.index, !.metadata = dsk.data.metadata,
                     !.dimension = dsk.data.dimension,
                     !.embeddings = IF dsk.data.index.kind = "sklearn"
                                    THEN [has |-> TRUE, rows |-> dsk.data.index.vecs]
                                    ELSE NoAttr]

\* C7: an artifact reloaded by a process that probes the backend that built
\* it gives the size() and the search results of the object that saved it,
\* and a further add_documents on the reloaded object succeeds.
C7_RoundTrip ==
    (ConstructedOverArtifact /\ InitBackend(last.env).backend = disk.data.backend)
        => /\ store.status = "ok"
           /\ Size(store) = Size(SavedObject(disk))
           /\ \A query \in Texts, top_k \in 1..MaxTopK :
                  Search(store, query, top_k, EmptyDict)
                  = Search(SavedObject(disk), query, top_k, EmptyDict)
           /\ \A batch \in Batches \ {<<>>} : AddDocuments(store, disk, batch).exc = "none"

\* the squared L2 distances from q to the stored vectors, ascending
DistancesAsc(s, q) ==
    LET sorted == SortAsc([i \in 1..Len(s.index.vecs) |->
                              [key |-> Rat(SqL2(q, s.index.vecs[i]), 1)]])
    IN [i \in 1..Len(sorted) |-> sorted[i].key]

\* C8: on the faiss backend an unfiltered search returns, nearest first, the
\* min(top_k, size()) nearest documents, each with score 1 / (1 + squared L2
\* distance to the query).
C8_FaissSimilarityNearestFirst ==
    (last.op = "search" /\ last.exc = "none" /\ store.backend = "faiss"
        /\ last.filter = EmptyDict /\ store.index.kind = "faiss")
        => LET ds == DistancesAsc(store, Embed(last.query))
           IN /\ Len(last.out) = Min(last.top_k, Len(ds))
              /\ \A i \in 1..Len(last.out) :
                     last.out[i].score = ScoreValue(RatInv1p(ds[i]))

\* a backend's library is installed in the process
Installed(env, b) == CASE b = "faiss"   -> env.faiss
                       [] b = "annoy"   -> env.annoy = "ok"
                       [] b = "sklearn" -> env.sklearn
                       [] OTHER         -> TRUE

\* the position in the probing order of the first installed backend
FirstInstalled(env) ==
    CHOOSE i \in 1..Len(Backends) :
        Installed(env, Backends[i]) /\ \A j \in 1..(i - 1) : ~Installed(env, Backends[j])

\* C9: with no artifact, construction probes faiss, annoy, sklearn, numpy in
\* this order, stops at the first installed one, which becomes the backend,
\* and a backend that is not installed (annoy included) does not make it fail.
C9_ProbeOrder ==
    (last.op = "construct" /\ disk.state = "absent")
        => /\ store.status = "ok"
           /\ store.backend = Backends[FirstInstalled(last.env)]
           /\ last.probed = SubSeq(Backends, 1, FirstInstalled(last.env))

\* the last call constructed a store over an artifact whose backend
\* identifier is not the backend the process probed
BackendMismatch ==
    ConstructedOverArtifact /\ InitBackend(last.env).backend # disk.data.backend

\* C10 as stated: on a backend identifier mismatch construction fails.
C10_MismatchIsFatal ==
    BackendMismatch => store.status = "failed"

\* C10 as amended: on a backend identifier mismatch construction either fails
\* (the persisted index object cannot be rebuilt in this process) or goes on
\* with the persisted identifier and the persisted index; the probed backend
\* is never used for a loaded artifact.
C10_MismatchFailsOrKeepsPersisted ==
    BackendMismatch =>
        \/ (store.status = "failed" /\ ~Loadable(disk.data.index, last.env))
        \/ (store.status = "ok" /\ store.backend = disk.data.backend
                /\ store.index = disk.data.index /\ store.metadata = disk.data.metadata)

\* a numpy-built artifact with documents was loaded by a process that probed faiss
C10_Witness ==
    BackendMismatch /\ store.status = "ok" /\ store.backend = "numpy"
        /\ InitBackend(last.env).backend = "faiss" /\ Len(store.metadata) > 0

\* C11: after an add_documents call with a non-empty batch that returns
\* normally, the artifact holds the object's index (its vectors), metadata,
\* dimension and backend identifier.
C11_ArtifactHoldsState ==
    (AddedBatch /\ last.exc = "none")
        => /\ disk.state = "pickle"
           /\ disk.data.index = store.index
           /\ disk.data.metadata = store.metadata
           /\ disk.data.dimension = store.dimension
           /\ disk.data.backend = store.backend

\* a second batch was added to a store that already held documents, and saved
C11_Witness ==
    AddedBatch /\ last.exc = "none" /\ Size(last.pre) > 0 /\ Size(store) > Size(last.pre)

\* VectorStore objects with their files: empty, and holding the stored documents
VsSamples ==
    {[store |-> NewVectorStore(NoIndexFiles), files |-> NoIndexFiles]}
    \cup {[store |-> NewVectorStore([state |-> "present", vecs |-> vs,
                                     metadata |-> [i \in 1..Len(vs) |-> EmptyDict]]),
           files |-> [state |-> "present", vecs |-> vs,
                      metadata |-> [i \in 1..Len(vs) |-> EmptyDict]]]
          : vs \in UNION {[1..n -> Vecs] : n \in 1..MaxBatch}}

\* C12: add_documents with an empty texts list changes nothing: the object
\* (index, metadata, dimension), size() and the artifact stay as they were,
\* and no exception leaves the call; the same on the faiss-only VectorStore.
C12_EmptyAddIsNoOp ==
    /\ (last.op = "add" /\ last.batch = <<>>)
           => /\ last.exc = "none"
              /\ store = last.pre
              /\ Size(store) = Size(last.pre)
              /\ disk = last.predisk
    /\ \A x \in VsSamples :
           VsAddDocuments(x.store, x.files, <<>>, <<>>) = [store |-> x.store, files |-> x.files]

\* an empty list was added to a store that holds documents and has an artifact
C12_Witness ==
    last.op = "add" /\ last.batch = <<>> /\ Size(store) > 0 /\ disk.state = "pickle"

\* C13: the knowledge base index holds one document per entry, in the
\* entries' order, after construction and after every add_fix.
C13_IndexHoldsEachEntryOnce ==
    (kb.status = "ok" /\ klast.op \in {"construct", "add_fix"})
        => /\ VsSize(kb.vector_store) = Len(kb.entries)
           /\ \A i \in 1..Len(kb.entries) :
                  kb.vector_store.metadata[i] = KbMetadata(i - 1, kb.entries[i])

\* C14: a load of the knowledge base that follows another load or write
\* yields the entries the file holds and the entries of the object before it
\* and leaves the file as it is; the load that finds no file yields the three
\* default entries and writes them, and loading that file yields them again.
C14_LoadIsIdempotent ==
    (klast.op \in {"construct", "load_kb"} /\ klast.exc = "none")
        => /\ LoadKb(kbfile).exc = "none"
           /\ LoadKb(kbfile).entries = kb.entries
           /\ LoadKb(kbfile).file = kbfile
           /\ klast.pre.status = "ok" => kb.entries = klast.pre.entries
           /\ klast.file.state = "json" => kbfile = klast.file
           /\ klast.file.state = "absent"
                  => /\ kb.entries = DefaultEntries
                     /\ Len(kb.entries) = 3
                     /\ kbfile.state = "json"
                     /\ Len(kbfile.data) = 3

\* the knowledge base was loaded a second time, from the file the first load
\* wrote the default entries to
C14_Witness ==
    /\ klast.op = "construct"
    /\ klast.pre.status = "ok"
    /\ klast.file.state = "json"
    /\ kb.entries = DefaultEntries

\* C15: for a code of the static table search_solutions returns the table's
\* records and does not ask the vector index, whatever the index holds; for
\* any other code the result comes from the similarity search.
C15_StaticTableFirst ==
    klast.op = "search_solutions"
        => IF klast.error_code \in {Chars("ERR-001"), Chars("ERR-002")}
           THEN /\ klast.out = MockSolutions[klast.error_code]
                /\ ~klast.queried
                /\ klast.error_code = Chars("ERR-001")
                       => klast.out[1].error_type = "Database Connection Timeout"
           ELSE /\ klast.queried
                /\ klast.out = VectorSolutions(kb, klast.error_code)

\* ERR-001 was looked up while the index had documents the search would return
C15_Witness ==
    /\ klast.op = "search_solutions"
    /\ klast.error_code = Chars("ERR-001")
    /\ VectorSolutions(kb, Chars("ERR-001")) # <<>>

\* C16: in every result of process_query and of analyze_logs, exact_matches
\* and similar_errors are never both non-empty: find_similar_errors runs only
\* when find_exact_matches returned no line, and similar_errors is empty when
\* there are exact matches
C16_ExactOrSimilar ==
    (rlast.op \in {"process_query", "analyze_logs"} /\ HasKey(rlast.out, "exact_matches"))
    => /\ DictGet(rlast.out, "exact_matches") = <<>>
          \/ DictGet(rlast.out, "similar_errors") = <<>>
       /\ "find_similar_errors" \in Range(rlast.steps)
          => DictGet(rlast.out, "exact_matches") = <<>>

\* process_query found exact matches and reported no similar errors, in a
\* text where find_similar_errors would have found some
C16_Witness ==
    /\ rlast.op = "process_query"
    /\ HasKey(rlast.out, "exact_matches")
    /\ DictGet(rlast.out, "exact_matches") # <<>>
    /\ DictGet(rlast.out, "similar_errors") = <<>>
    /\ rlast.similar # <<>>
    /\ "find_similar_errors" \notin Range(rlast.steps)

\* C17: find_exact_matches(query, text) returns exactly the lines of the text,
\* in the order of the text, whose lower case holds the lower case of the
\* query and which hold 'ERROR' in upper case; a line without 'ERROR' is
\* never returned
C17_ExactMatchesAreTheErrorLinesWithQuery ==
    rlast.op = "find_exact_matches"
    => LET lines == Split(RawOf(req.log_data), "\n")
           hits == {j \in 1..Len(lines) :
                       /\ Contains(Lower(lines[j]), Lower(req.query))
                       /\ Contains(lines[j], Chars("ERROR"))}
       IN /\ Len(rlast.lines) = Cardinality(hits)
          /\ \A j \in hits : rlast.lines[Cardinality({h \in hits : h <= j})] = lines[j]
          /\ \A i \in 1..Len(rlast.lines) : Contains(rlast.lines[i], Chars("ERROR"))

\* an upper-case query matched an ERROR line that holds it in lower case, in
\* a text that also has a line with the query and without 'ERROR', which was
\* left out
C17_Witness ==
    /\ rlast.op = "find_exact_matches"
    /\ req.query = Chars("X")
    /\ rlast.lines = <<Chars("ERROR Component=Db Code=DB x")>>
    /\ \E i \in 1..Len(Split(RawOf(req.log_data), "\n")) :
           Split(RawOf(req.log_data), "\n")[i] \in {Chars("INFO Code=DB x"), Chars("error x")}

\* C18: get_relevant_solutions looks at the first 5 lines only and returns at
\* most one solution for each distinct error code of those lines, so at most
\* 5 solutions: two lines with the same code give one solution
C18_OneSolutionPerCode ==
    rlast.op = "get_relevant_solutions"
    => /\ Len(rlast.solutions) <= 5
       /\ Len(rlast.solutions)
             <= Cardinality(GroupsIn(Chars("Code="), UpperOrUnderscore, Take(rlast.lines, 5)))
       /\ \A i \in 1..Len(rlast.solutions) :
              \E j \in 1..Len(Take(rlast.lines, 5)) :
                  rlast.solutions[i].source_line = SourceLine(rlast.lines[j])


\* C19: process_query with log_data that is None, empty or without the key
\* 'raw' returns the result {'error': ...}; it does not raise and runs neither
\* the exact matching nor the similarity fallback nor a knowledge base lookup
C19_NoLogDataShortCircuits ==
    (/\ rlast.op = "process_query"
     /\ \/ req.log_data.isNone
        \/ req.log_data.items = EmptyDict
        \/ ~HasKey(req.log_data.items, "raw"))
    => /\ rlast.exc = "none"
       /\ rlast.out = {<<"error", "No log data available">>}
       /\ rlast.steps = <<>>

\* process_query was called with a non-empty dict that has no 'raw'
C19_Witness ==
    /\ rlast.op = "process_query"
    /\ req.log_data = LogData({<<"file_count", 1>>})
    /\ HasKey(rlast.out, "error")
    /\ rlast.steps = <<>>

\* C20: when a step of the pipeline of an 'Analyze' click raises, in
\* analyze_logs or in process_query, the exception is caught and shown as a
\* message, it does not leave the script, and st.session_state keeps the
\* results and log_data it had before the click
C20_FailedAnalysisKeepsSession ==
    (alast.op = "analyze" /\ (alast.kb_raises \/ alast.rag_raises))
    => /\ alast.messages # <<>>
       /\ alast.exc = "none"
       /\ session = alast.pre

\* C24: on the numpy backend the results of an unfiltered search are the
\* documents in descending order of similarity, documents of equal similarity
\* in the order they were inserted, cut after top_k: at a tie across the cut
\* the document inserted earlier is the one kept
C24_TiesKeepInsertionOrder ==
    (/\ last.op = "search" /\ last.exc = "none"
     /\ store.backend = "numpy" /\ store.index.kind # "None"
     /\ Len(store.index.vecs) = Len(store.metadata)
     /\ last.filter = EmptyDict /\ last.top_k >= 1)
    => LET n == Len(store.metadata)
           Sim(i) == CosineOf[Embed(last.query), store.index.vecs[i]]
           Before(i, j) == RatLess(Sim(j), Sim(i)) \/ (Sim(i) = Sim(j) /\ i < j)
           Rank(i) == 1 + Cardinality({j \in 1..n : Before(j, i)})
       IN /\ Len(last.out) = Min(last.top_k, n)
          /\ \A i \in 1..n :
                 Rank(i) <= last.top_k
                 => last.out[Rank(i)] = [score |-> ScoreValue(Sim(i)),
                                         metadata |-> store.metadata[i]]

\* VectorStore objects whose documents differ in their metadata
VsFilterSamples ==
    {NewVectorStore([state |-> "present", vecs |-> [i \in 1..Len(b) |-> Embed(b[i][1])],
                     metadata |-> [i \in 1..Len(b) |-> b[i][2]]])
     : b \in Batches}

\* on the faiss-only VectorStore the filtered result is the unfiltered one
\* without the documents the filter rejects
VsFilteredIsSubsequence ==
    \A v \in VsFilterSamples, query \in Texts, top_k \in 1..MaxTopK, filter \in Filters :
        VsSearch(v, query, top_k, filter).out
        = SelectSeq(VsSearch(v, query, top_k, EmptyDict).out,
                    LAMBDA r : FilterMatch(r.metadata, filter))

\* C25: the filter is applied after retrieval: a search with a filter returns
\* exactly the results of the search without it (same query, same top_k)
\* whose metadata match the filter, in their order, so a matching document
\* outside the unfiltered top_k is never returned
C25_FilteredIsSubsequenceOfUnfiltered ==
    /\ (last.op = "search" /\ last.exc = "none")
       => LET unfiltered == Search(store, last.query, last.top_k, EmptyDict)
          IN /\ unfiltered.exc = "none"
             /\ last.out = SelectSeq(unfiltered.out,
                                     LAMBDA r : FilterMatch(r.metadata, last.filter))
    /\ VsFilteredIsSubsequence

\* a search with a filter returned nothing although the store holds a
\* matching document: the search without the filter returns top_k results,
\* none of which matches, so the matching document lies outside the top_k
C25_Witness ==
    /\ last.op = "search" /\ last.exc = "none"
    /\ last.filter # EmptyDict
    /\ last.top_k >= 1
    /\ last.out = <<>>
    /\ \E i \in 1..Len(store.metadata) : FilterMatch(store.metadata[i], last.filter)
    /\ LET unfiltered == Search(store, last.query, last.top_k, EmptyDict).out
       IN /\ Len(unfiltered) = last.top_k
          /\ \A i \in 1..Len(unfiltered) : ~FilterMatch(unfiltered[i].metadata, last.filter)

\* the tokens find_similar_errors may match a line with: the whitespace-separated
\* words of the query in lower case and the keywords, those longer than 3
LongTokens(query) ==
    {w \in Range(SplitWords(Lower(query)))
           \cup {Chars("connection"), Chars("timeout"), Chars("failed"),
                 Chars("error"), Chars("drop"), Chars("crash")} : Len(w) > 3}

\* C26: find_similar_errors returns a list without duplicates; every line of
\* it holds 'ERROR' and holds, case ignored, a token longer than 3 characters
\* of the query or of the keywords; shorter tokens never make a match
C26_SimilarErrorsAreDistinctErrorLines ==
    rlast.op = "find_similar_errors"
    => /\ \A i, j \in 1..Len(rlast.lines) : rlast.lines[i] = rlast.lines[j] => i = j
       /\ \A i \in 1..Len(rlast.lines) :
              /\ Contains(rlast.lines[i], Chars("ERROR"))
              /\ \E w \in LongTokens(req.query) : Contains(Lower(rlast.lines[i]), w)
              /\ rlast.lines[i] \in Range(Split(RawOf(req.log_data), "\n"))

\* a text with the same ERROR line twice gave that line once, for a query
\* whose only word has one character and stands in the line
C26_Witness ==
    /\ rlast.op = "find_similar_errors"
    /\ req.query = Chars("x")
    /\ rlast.lines = <<Chars("ERROR Component=Db Code=DB x")>>
    /\ Len(AllErrorLines(RawOf(req.log_data))) >= 2

\* C28: the result of find_similar_errors does not depend on the query: it
\* lists, once each, exactly the lines of the text that hold 'ERROR'
C28_SimilarErrorsIgnoreQuery ==
    rlast.op = "find_similar_errors"
    => /\ Range(rlast.lines) = Range(AllErrorLines(RawOf(req.log_data)))
       /\ Len(rlast.lines) = Cardinality(Range(AllErrorLines(RawOf(req.log_data))))

\* a query no line holds got every ERROR line of a text that also has lines
\* without 'ERROR'
C28_Witness ==
    /\ rlast.op = "find_similar_errors"
    /\ req.query = Chars("zz")
    /\ Len(rlast.lines) = 2
    /\ Len(Split(RawOf(req.log_data), "\n")) = 3

\* C27: in every result of process_query, total_errors is the number of
\* lines of the whole text that hold 'ERROR', whatever the query is,
\* unique_components the number of distinct Component= names on those lines,
\* query_matches the length of the primary result (the exact matches, else
\* the similar errors), and query_matches <= total_errors
C27_LogStatsCountTheText ==
    (rlast.op = "process_query" /\ HasKey(rlast.out, "log_stats"))
    => LET stats == DictGet(rlast.out, "log_stats")
           lines == Split(RawOf(req.log_data), "\n")
           errors == {j \in 1..Len(lines) : Contains(lines[j], Chars("ERROR"))}
           named == {j \in errors : ReSearch(Chars("Component="), Letters, lines[j]).found}
           names == {ReSearch(Chars("Component="), Letters, lines[j]).group : j \in named}
           exact == DictGet(rlast.out, "exact_matches")
           primary == IF exact # <<>> THEN exact ELSE DictGet(rlast.out, "similar_errors")
       IN /\ DictGet(stats, "total_errors") = Cardinality(errors)
          /\ DictGet(stats, "unique_components") = Cardinality(names)
          /\ DictGet(stats, "query_matches") = Len(primary)
          /\ DictGet(stats, "query_matches") <= DictGet(stats, "total_errors")

\* a query matched one of the two ERROR lines of a text that also has a line
\* without 'ERROR'
C27_Witness ==
    /\ rlast.op = "process_query"
    /\ HasKey(rlast.out, "log_stats")
    /\ DictGet(DictGet(rlast.out, "log_stats"), "total_errors") = 2
    /\ DictGet(DictGet(rlast.out, "log_stats"), "query_matches") = 1
    /\ DictGet(DictGet(rlast.out, "log_stats"), "unique_components") = 1
    /\ Len(Split(RawOf(req.log_data), "\n")) = 3

\* the error_type values of the static table of search_solutions
StaticErrorTypes ==
    {MockSolutions[c][1].error_type : c \in DOMAIN MockSolutions}

\* C29: the code the engine takes from a line is the run of upper-case
\* letters and underscores after 'Code=' (Code=ERR-001 gives ERR), so no
\* code with a digit or a hyphen is passed to search_solutions, no key of the
\* static table is, and no solution of get_relevant_solutions or of
\* process_query comes from the static table
C29_StaticTableIsNeverHit ==
    /\ rlast.op = "get_relevant_solutions"
       => \A i \in 1..Min(5, Len(rlast.lines)) :
              LET code_match == ReSearch(Chars("Code="), UpperOrUnderscore, rlast.lines[i])
              IN code_match.found
                 => /\ Range(code_match.group) \subseteq UpperOrUnderscore
                    /\ code_match.group \notin DOMAIN MockSolutions
                    /\ SearchSolutions(req.kb, code_match.group).queried
                    /\ Contains(rlast.lines[i], Chars("ERR-001"))
                       => code_match.group = Chars("ERR")
    /\ rlast.op = "get_relevant_solutions"
       => \A i \in 1..Len(rlast.solutions) : rlast.solutions[i].error \notin StaticErrorTypes
    /\ (rlast.op = "process_query" /\ HasKey(rlast.out, "solutions"))
       => \A i \in 1..Len(DictGet(rlast.out, "solutions")) :
              DictGet(rlast.out, "solutions")[i].error \notin StaticErrorTypes

\* a line with Code=ERR-001 got a solution, from the vector index
C29_Witness ==
    /\ rlast.op = "get_relevant_solutions"
    /\ \E i \in 1..Len(rlast.solutions) :
           /\ rlast.solutions[i].source_line = Chars("ERROR Code=ERR-001 timeout")
           /\ rlast.solutions[i].error \notin StaticErrorTypes

\* C30: every solution of get_relevant_solutions has exact_match = True, and
\* the engine's second lookup (search_similar_issues, exact_match = False) is
\* never the one that answers: for every code the engine can extract,
\* search_solutions returns the empty list only when the knowledge base's
\* index holds no vector, and then search_similar_issues is empty too (a
\* lookup that raises returns no list)
C30_EverySolutionIsExactMatch ==
    rlast.op = "get_relevant_solutions"
    => /\ \A i \in 1..Len(rlast.solutions) : rlast.solutions[i].exact_match = TRUE
       /\ \A i \in 1..Min(5, Len(rlast.lines)) :
              LET code_match == ReSearch(Chars("Code="), UpperOrUnderscore, rlast.lines[i])
                  error_code == code_match.group
              IN (/\ code_match.found
                  /\ SearchSolutions(req.kb, error_code).exc = "none"
                  /\ SearchSolutions(req.kb, error_code).out = <<>>)
                 => /\ SearchSimilarIssues(req.kb, error_code, 1).out = <<>>
                    /\ \/ req.kb.vector_store.index.kind = "None"
                       \/ Len(req.kb.vector_store.index.vecs) = 0

\* a solution that search_solutions built from its own vector search
C30_Witness ==
    /\ rlast.op = "get_relevant_solutions"
    /\ rlast.solutions # <<>>
    /\ rlast.solutions[1].exact_match = TRUE
    /\ \E i \in 1..Min(5, Len(rlast.lines)) :
           LET code_match == ReSearch(Chars("Code="), UpperOrUnderscore, rlast.lines[i])
           IN /\ code_match.found
              /\ SearchSolutions(req.kb, code_match.group).queried
              /\ SearchSolutions(req.kb, code_match.group).out # <<>>

\* the line is written to the grammar 'timestamp - level - tail'
WellFormed(parts) ==
    /\ parts.stamp \in {Chars("1Z"), Chars("2025-12-18T01:59:40.2Z")}
    /\ parts.sep \in {Chars(" - "), Chars("  -  ")}
    /\ parts.level # <<>>

\* C22: parse_line returns no record exactly for the lines that are not
\* written to the grammar; for the others the record's log_level is the level
\* token, its component the Component= value or 'Unknown', its error_code the
\* Code= value or absent, its message the Message= value or the whole tail
C22_FieldsAreTheTailValues ==
    plast.op = "parse_line"
    => /\ plast.out.parsed <=> WellFormed(pline)
       /\ plast.out.parsed
          => /\ plast.out.log_level = pline.level
             /\ plast.out.component = IF pline.component = <<>> THEN Chars("Unknown")
                                      ELSE pline.component[1]
             /\ plast.out.error_code = pline.code
             /\ plast.out.message = IF pline.message = <<>> THEN TailOf(pline)
                                    ELSE pline.message[1]

\* C21: a line for which parse_line returns no record is counted in no
\* statistic of process_query: total_errors, unique_components and
\* query_matches count among the lines of the text that parse_line accepts
C21_UnparsedLinesAreNotCounted ==
    (rlast.op = "process_query" /\ HasKey(rlast.out, "log_stats"))
    => LET stats == DictGet(rlast.out, "log_stats")
           lines == Split(RawOf(req.log_data), "\n")
           parsed == {j \in 1..Len(lines) : ParseLine(lines[j]).parsed}
       IN /\ DictGet(stats, "total_errors") <= Cardinality(parsed)
          /\ DictGet(stats, "unique_components") <= Cardinality(parsed)
          /\ DictGet(stats, "query_matches") <= Cardinality(parsed)

\* the vectors and the metadata an artifact holds
ArtifactDocs(d) ==
    IF d.class = "flexible"
    THEN [vecs |-> d.pkl.data.index.vecs, metadata |-> d.pkl.data.metadata]
    ELSE [vecs |-> d.faiss.vecs, metadata |-> d.meta.metadata]

\* C23: when two objects are loaded from the same artifact and each then adds
\* a batch, the final artifact is the in-memory snapshot of the object that
\* saved last: what both loaded plus that object's batch, without the batch
\* of the other
C23_LastWriterWins ==
    (/\ \A i \in 1..2 : cinst[i].pc = "done" /\ cinst[i].batch # <<>>
     /\ cinst[1].base = cinst[2].base)
    => LET saver_store == cinst[cdisk.writer].store
           batch == cinst[cdisk.writer].batch
           loaded == ArtifactDocs(cinst[1].base)
       IN /\ ArtifactDocs(cdisk) = [vecs |-> saver_store.index.vecs,
                                    metadata |-> saver_store.metadata]
          /\ ArtifactDocs(cdisk)
             = [vecs |-> loaded.vecs \o [j \in 1..Len(batch) |-> Embed(batch[j][1])],
                metadata |-> loaded.metadata \o [j \in 1..Len(batch) |-> batch[j][2]]]

====
